---- MODULE Spec2Model ----
\* A model of the feed ingestion scripts of papertrails:
\*   src/src/scripts/fetch-feeds.js        (fetchAllFeeds, processFeeds,
\*                                          fetchFeedWithRetry, waitForDomainClearance)
\*   src/src/scripts/fetch-feeds-local.js  (fetchFeeds, the local fetcher)
\*
\* Time is counted in whole seconds (the scripts count milliseconds; every
\* configured delay is a whole number of seconds, and the sub-second random
\* part that delay() adds is the jitter 0..MaxJitter).
\* Strings that the code hashes are sequences of character codes.
\* fetch-feeds.js declares const substackFeeds and const nonSubstackFeeds
\* twice in one block (lines 531-532 and 552-553), which a JavaScript engine
\* rejects when it loads the file; the model is of the statements as they
\* read, with the two identical pairs of declarations taken as one.
EXTENDS Integers, Sequences, FiniteSets, TLC

\* ------------------------------------------------------------------ bounds

\* the random part delay() adds to a wait (Math.random() * 1000 ms), in seconds
MaxJitter == 1
\* the longest a network request takes, in seconds
MaxFetchTime == 1
\* how many feeds data/feeds.json lists at most
MaxFeeds == 2
\* how many times the script is started
MaxRuns == 2
\* the script is started on a schedule, every RunPeriod seconds from StartTime
RunPeriod == 3600
\* the clock (Date.now(), in seconds) when the first run starts
StartTime == 3000000

\* ------------------------------------------- RATE_LIMIT of fetch-feeds.js

retryAttempts == 2
retryDelay == 30
delayBetweenRequests == 45
substackDelayMin == 480
substackDelayMax == 720
substackMinDomainDelay == 1200
globalSubstackDelay == 600
rateLimitBackoffBase == 120
rateLimitBackoffMultiplier == 2
rateLimitMaxBackoff == 1200
nonSubstackDelay == 15
\* failedFeeds.set(feed.url, Date.now() + 2 * 60 * 60 * 1000)
failedFeedCooldown == 7200
\* thirtyDaysAgo.setDate(thirtyDaysAgo.getDate() - 30)
thirtyDays == 2592000
\* .slice(0, 500)
displayLimit == 500

\* ----------------------------------------------------------------- helpers

Max(a, b) == IF a >= b THEN a ELSE b
Min(a, b) == IF a <= b THEN a ELSE b

RECURSIVE Pow(_, _)
Pow(b, e) == IF e = 0 THEN 1 ELSE b * Pow(b, e - 1)

Range(s) == {s[i] : i \in 1..Len(s)}

\* ------------------------------------------------------- the feed catalog

\* data/feeds.json. url is the endpoint, host what getDomainFromUrl(url)
\* returns, and urlSubstack is feed.url.includes('substack.com'). The
\* file does not keep two entries from naming one endpoint: beta does.
AllFeeds ==
  << [name |-> "alpha", url |-> "https://alpha.example/feed",
      host |-> "alpha.example", urlSubstack |-> FALSE],
     [name |-> "one", url |-> "https://one.substack.com/feed",
      host |-> "one.substack.com", urlSubstack |-> TRUE],
     [name |-> "beta", url |-> "https://alpha.example/feed",
      host |-> "alpha.example", urlSubstack |-> FALSE],
     [name |-> "gamma", url |-> "https://alpha.example/gamma/feed",
      host |-> "alpha.example", urlSubstack |-> FALSE] >>

FeedIx == 1..Len(AllFeeds)

\* the strictly increasing sequences of indexes into AllFeeds from index lo
\* on, of length at most n
RECURSIVE IncreasingFrom(_, _)
IncreasingFrom(lo, n) ==
  IF n = 0 THEN {<<>>}
  ELSE {<<>>} \cup UNION {{<<i>> \o q : q \in IncreasingFrom(i + 1, n - 1)} :
                           i \in lo..Len(AllFeeds)}

\* the feeds of which no two share a host without sharing the url
GeneralFeeds == {f \in FeedIx : AllFeeds[f].name # "gamma"}

\* what data/feeds.json may hold: between 1 and MaxFeeds of these, in the
\* order of AllFeeds, as indexes into AllFeeds
Catalogs ==
  {c \in IncreasingFrom(1, MaxFeeds) \ {<<>>} :
     \A i \in 1..Len(c) : c[i] \in GeneralFeeds}

\* catalogs with the feed that shares its host, but not its url, with others
HostCatalogs ==
  {c \in IncreasingFrom(1, MaxFeeds) :
     \E i \in 1..Len(c) : c[i] \notin GeneralFeeds}

\* the hosts of the feeds, and one more host of the Substack class
Hosts == {AllFeeds[i].host : i \in 1..Len(AllFeeds)} \cup {"two.substack.com"}

\* domain.includes('substack.com')
IsSubstackDomain(domain) == domain \in {"one.substack.com", "two.substack.com"}
Urls == {AllFeeds[i].url : i \in 1..Len(AllFeeds)}

\* ------------------------------------------------------ article identity

\* generateId(text): hash = ((hash << 5) - hash) + char, kept to 32 bits by
\* hash & hash; the result is Math.abs(hash).toString(16). The id is the
\* number whose hexadecimal numeral the code returns. The strings of this
\* model are at most a few small character codes long, so hash stays far
\* below 2^31 and hash & hash leaves it as it is.
RECURSIVE HashFrom(_, _)
HashFrom(hash, text) ==
  IF text = <<>> THEN hash
  ELSE HashFrom(((hash * 32) - hash) + Head(text), Tail(text))

generateId(text) ==
  LET hash == HashFrom(0, text) IN IF hash < 0 THEN -hash ELSE hash

\* Whether the property key id.toString(16) is an array index for
\* JavaScript: a numeral made of decimal digits only ("0" or no leading zero,
\* which toString(16) never produces). Object.values lists such keys first,
\* in ascending numeric order, and the other keys in insertion order.
RECURSIVE IsArrayIndexKey(_)
IsArrayIndexKey(id) ==
  IF id < 16 THEN id < 10
  ELSE (id % 16) < 10 /\ IsArrayIndexKey(id \div 16)

\* the number an array-index key reads as (its hex digits read in decimal)
RECURSIVE IndexOfKey(_)
IndexOfKey(id) ==
  IF id < 16 THEN id ELSE IndexOfKey(id \div 16) * 10 + (id % 16)

\* --------------------------------------------------------------- parseXML

\* A raw <item> of a payload: link and title are strings (sequences of
\* character codes, <<>> when the tag is absent or empty), pubDate is the
\* time the <pubDate> tag reads as, NoPubDate when the item has no such tag,
\* BadPubDate when new Date(text) is an Invalid Date; content is the text.
NoPubDate == 0
BadPubDate == -1

\* new Date(pubDate).toISOString() throws a RangeError on an Invalid Date
ParseThrows(items) ==
  \E i \in 1..Len(items) : items[i].pubDate = BadPubDate

\* one item as parseXML builds it (lines 159-232), parsed at time now
ParseItem(raw, now) ==
  [ id          |-> generateId(raw.link \o raw.title),
    title       |-> raw.title,
    link        |-> raw.link,
    publishedAt |-> IF raw.pubDate = NoPubDate THEN now ELSE raw.pubDate,
    content     |-> raw.content ]

\* parseXML(xmlString, feed): the items that have a title and a link, in
\* payload order (defined when ParseThrows(items) is false)
RECURSIVE parseXML(_, _)
parseXML(items, now) ==
  IF items = <<>> THEN <<>>
  ELSE LET item == ParseItem(Head(items), now)
           rest == parseXML(Tail(items), now)
       IN IF item.title # <<>> /\ item.link # <<>> THEN <<item>> \o rest ELSE rest

\* enrichedArticles of fetchFeedWithRetry (lines 393-402)
Enrich(articles, feed) ==
  [i \in 1..Len(articles) |->
     [ id          |-> articles[i].id,
       title       |-> articles[i].title,
       link        |-> articles[i].link,
       publishedAt |-> articles[i].publishedAt,
       content     |-> articles[i].content,
       publication |-> feed.name ]]

\* ---------------------------------------------------------- archive merge

\* A JavaScript object keyed by article id is the sequence of its values in
\* own-property order: array-index keys ascending, then the other keys in
\* insertion order.
HasKey(obj, id) == \E i \in 1..Len(obj) : obj[i].id = id
KeyPos(obj, id) == CHOOSE i \in 1..Len(obj) : obj[i].id = id
Keys(obj) == {obj[i].id : i \in 1..Len(obj)}
Lookup(obj, id) == obj[KeyPos(obj, id)]

\* where a new array-index key goes: after the array-index keys below it
IndexSlot(obj, id) ==
  Cardinality({i \in 1..Len(obj) :
                 IsArrayIndexKey(obj[i].id) /\ IndexOfKey(obj[i].id) < IndexOfKey(id)})

\* a variant that never looks for the key: the article is added at the end
ObjSetAppend(obj, article) == Append(obj, article)

\* articlesArchive[article.id] = article   (line 582): a key already present
\* keeps its place and takes the new value
ObjSet(obj, article) ==
  IF HasKey(obj, article.id)
  THEN [obj EXCEPT ![KeyPos(obj, article.id)] = article]
  ELSE IF IsArrayIndexKey(article.id)
       THEN LET k == IndexSlot(obj, article.id)
            IN SubSeq(obj, 1, k) \o <<article>> \o SubSeq(obj, k + 1, Len(obj))
       ELSE Append(obj, article)

\* variants of the merge: the new articles are put in front of the archive,
\* and the new articles are all that is kept
MergeArchiveConcat(archive, articles) == articles \o archive
MergeArchiveFresh(archive, articles) == articles

\* allArticles.forEach(article => { articlesArchive[article.id] = article })
RECURSIVE MergeArchive(_, _)
MergeArchive(archive, articles) ==
  IF articles = <<>> THEN archive
  ELSE MergeArchive(ObjSet(archive, Head(articles)), Tail(articles))

\* Array.prototype.sort is stable: a goes in after every element that does
\* not sort after it under (a, b) => new Date(b.publishedAt) - new Date(a.publishedAt)
RECURSIVE InsertByDate(_, _)
InsertByDate(sorted, a) ==
  IF sorted = <<>> THEN <<a>>
  ELSE IF Head(sorted).publishedAt >= a.publishedAt
       THEN <<Head(sorted)>> \o InsertByDate(Tail(sorted), a)
       ELSE <<a>> \o sorted

RECURSIVE SortByDate(_)
SortByDate(s) ==
  IF s = <<>> THEN <<>>
  ELSE InsertByDate(SortByDate(SubSeq(s, 1, Len(s) - 1)), s[Len(s)])

\* Object.values(articlesArchive).sort(...)   (lines 586-587)
AllArchivedArticles(archive) == SortByDate(archive)

RECURSIVE FilterRecent(_, _)
FilterRecent(s, cutoff) ==
  IF s = <<>> THEN <<>>
  ELSE IF Head(s).publishedAt > cutoff
       THEN <<Head(s)>> \o FilterRecent(Tail(s), cutoff)
       ELSE FilterRecent(Tail(s), cutoff)

\* a variant without the slice
RecentArticlesUnsliced(sorted, now, limit) == FilterRecent(sorted, now - thirtyDays)

\* allArchivedArticles.filter(a => new Date(a.publishedAt) > thirtyDaysAgo)
\*                    .slice(0, limit)   (lines 590-595; limit is 500 there)
RecentArticles(sorted, now, limit) ==
  LET recent == FilterRecent(sorted, now - thirtyDays)
  IN SubSeq(recent, 1, Min(limit, Len(recent)))

\* -------------------------------------------------------- feed payloads

Item(l, t, p, c) == [link |-> l, title |-> t, pubDate |-> p, content |-> c]

\* publication times the payloads carry: within the last 30 days of every
\* run of the model, and before them
RecentDate == StartTime - 3600
NewerDate == StartTime - 60
OldDate == StartTime - thirtyDays - 86400

\* What a successful request for a feed may return. The same item (same link
\* and title) comes back edited and without its pubDate in a later payload;
\* "beta" has an item without a title and a payload whose date is malformed.
Payloads(name) ==
  CASE name = "alpha" ->
         { << Item(<<1>>, <<2>>, RecentDate, "v1") >>,
           << Item(<<1>>, <<2>>, NoPubDate, "v2"), Item(<<3>>, <<4>>, OldDate, "v1") >> }
    [] name = "one" ->
         { << Item(<<1>>, <<11>>, NewerDate, "v1") >> }
    [] OTHER ->
         { << Item(<<5>>, <<6>>, RecentDate, "v1"), Item(<<7>>, <<>>, RecentDate, "v1") >>,
           << Item(<<5>>, <<6>>, BadPubDate, "v1") >> }

\* what a request ends with: response.ok, HTTP 403/429, another HTTP status,
\* or fetch() rejecting (network error, timeout)
Outcomes == {"ok", "rateLimited", "httpError", "networkError"}

\* ------------------------------------------------- throttle and backoff

\* delay(ms): setTimeout(ms + Math.random() * 1000)
Delay(ms, jitter) == ms + jitter

\* getRandomSubstackDelay() lies in substackDelayMin..substackDelayMax
SubstackRandomDelays == {substackDelayMin, substackDelayMax}

\* a variant without the minimum of a Substack domain
RequiredDelayRandomOnly(isSubstack, substackRandomDelay) ==
  IF isSubstack THEN substackRandomDelay ELSE nonSubstackDelay

\* requiredDelay of waitForDomainClearance (lines 277-295)
RequiredDelay(isSubstack, substackRandomDelay) ==
  IF isSubstack THEN Max(substackRandomDelay, substackMinDomainDelay)
  ELSE nonSubstackDelay

\* a variant without the cooldown of the class
waitForDomainClearanceOwnHost(now, lastRequested, lastSubstack, isSubstack, rnd, j1, j2) ==
  LET requiredDelay == RequiredDelay(isSubstack, rnd)
      timeSinceLastRequest == now - lastRequested
  IN IF timeSinceLastRequest < requiredDelay
     THEN now + Delay(requiredDelay - timeSinceLastRequest, j2)
     ELSE now

\* waitForDomainClearance(domain, isSubstack), called at time now with
\* lastRequested = domainLastRequested.get(domain) || 0: the time at which it
\* records the contact (lines 309 and 313). Both waits are computed from the
\* Date.now() read on entry; j1 and j2 are the jitters of the two delays.
waitForDomainClearance(now, lastRequested, lastSubstack, isSubstack, rnd, j1, j2) ==
  LET timeSinceLastSubstack == now - lastSubstack
      afterGlobal ==
        IF isSubstack /\ timeSinceLastSubstack < globalSubstackDelay
        THEN now + Delay(globalSubstackDelay - timeSinceLastSubstack, j1)
        ELSE now
      requiredDelay == RequiredDelay(isSubstack, rnd)
      timeSinceLastRequest == now - lastRequested
  IN IF timeSinceLastRequest < requiredDelay
     THEN afterGlobal + Delay(requiredDelay - timeSinceLastRequest, j2)
     ELSE afterGlobal

\* a variant without the cap
calculateRateLimitBackoffUncapped(domain, attempt) ==
  rateLimitBackoffBase * Pow(rateLimitBackoffMultiplier, attempt - 1)

\* calculateRateLimitBackoff(domain, attempt)   (lines 440-447)
calculateRateLimitBackoff(domain, attempt) ==
  Min(rateLimitBackoffBase * Pow(rateLimitBackoffMultiplier, attempt - 1),
      rateLimitMaxBackoff)

\* a variant in which a success leaves the backoff of the host standing
BackoffAfterResponseKept(backoff, domain, out, responded, attemptNumber) ==
  IF out = "rateLimited"
  THEN [backoff EXCEPT ![domain] =
          responded + calculateRateLimitBackoff(domain, attemptNumber)]
  ELSE backoff

\* domainRateLimitBackoff after the response to a request (lines 374-387):
\* set on 403/429, deleted when response.ok, left alone otherwise
BackoffAfterResponse(backoff, domain, out, responded, attemptNumber) ==
  IF out = "ok" THEN [backoff EXCEPT ![domain] = 0]
  ELSE IF out = "rateLimited"
  THEN [backoff EXCEPT ![domain] =
          responded + calculateRateLimitBackoff(domain, attemptNumber)]
  ELSE backoff

\* a variant that does not wait for a standing backoff
AfterBackoffIgnored(now, backoffUntil, j) == now

\* the wait for a standing backoff (lines 343-349), from time now
AfterBackoff(now, backoffUntil, j) ==
  IF now < backoffUntil THEN now + Delay(backoffUntil - now, j) ELSE now

\* error.message.includes('403') || error.message.includes('429') (line
\* 412) for the errors of the model: the error thrown on a 403/429 response
\* carries the status in its message, and so does the error thrown on
\* another status ('HTTP ' + status + ': ' + statusText, line 383) when the
\* status text the server sent holds '403' or '429'
IsRateLimitError(kind) == kind \in {"rateLimited", "httpErrorNaming429"}

\* ---------------------------------------------------- processing order

RECURSIVE Perms(_)
Perms(S) ==
  IF S = {} THEN {<<>>}
  ELSE UNION {{<<x>> \o q : q \in Perms(S \ {x})} : x \in S}

RECURSIVE SelectIx(_, _)
SelectIx(feeds, substack) ==
  IF feeds = <<>> THEN {}
  ELSE (IF AllFeeds[Head(feeds)].urlSubstack = substack THEN {Head(feeds)} ELSE {})
       \cup SelectIx(Tail(feeds), substack)

\* an order grouped by class: every Substack feed, then the others
InterleaveGrouped(sub, non, si, ni, counts, k) == sub \o non

\* one round of the loop and no more: the feeds left after it are dropped
InterleaveOneRound(sub, non, si, ni, counts, k) ==
  (IF si <= Len(sub) THEN <<sub[si]>> ELSE <<>>)
  \o SubSeq(non, ni, ni + Min(counts[k], Len(non) - ni + 1) - 1)

\* the while loop of lines 564-575 from the indexes si and ni on; counts[k]
\* is the k-th value of Math.floor(Math.random() * 2) + 2
RECURSIVE Interleave(_, _, _, _, _, _)
Interleave(sub, non, si, ni, counts, k) ==
  IF si > Len(sub) /\ ni > Len(non) THEN <<>>
  ELSE LET first == IF si <= Len(sub) THEN <<sub[si]>> ELSE <<>>
           si2 == IF si <= Len(sub) THEN si + 1 ELSE si
           take == Min(counts[k], Len(non) - ni + 1)
       IN first \o SubSeq(non, ni, ni + take - 1)
          \o Interleave(sub, non, si2, ni + take, counts, k + 1)

\* every interleavedFeeds the shuffles and the 2-or-3 choices can give for
\* the feeds (a sequence of indexes into AllFeeds)
InterleavedOrders(feeds) ==
  { Interleave(s, n, 1, 1, c, 1) :
      s \in Perms(SelectIx(feeds, TRUE)),
      n \in Perms(SelectIx(feeds, FALSE)),
      c \in [1..Max(Len(feeds), 1) -> {2, 3}] }

\* ------------------------------------------------------------------ state

VARIABLES
  catalog,                \* data/feeds.json, as indexes into AllFeeds
  clock,                  \* Date.now(), in seconds
  pc,                     \* where the script is: "idle" (no process), "fetch"
                          \* (in the loop of processFeeds), "merge" (processFeeds
                          \* has returned), "writeDisplay" (archive file
                          \* written), "done" (fetchAllFeeds has returned),
                          \* "stopped" (a signal handler has called
                          \* process.exit); "local..." in the local fetcher;
                          \* "backoff" and "item" in the harnesses
  runs,                   \* how many times the script was started
  archiveFile,            \* data/articles-archive.json
  displayFile,            \* data/articles.json
  articlesArchive,        \* the archive object of fetchAllFeeds
  interleavedFeeds,       \* the processing order, indexes into AllFeeds
  idx,                    \* the loop index i of processFeeds, from 1
  attempt,                \* the attempt of the fetchFeedWithRetry call in progress
  allArticles,            \* results of processFeeds
  domainLastRequested,    \* host -> time, 0 when the Map has no entry
  lastSubstackRequest,    \* RATE_LIMIT.lastSubstackRequest
  domainRateLimitBackoff, \* host -> time, 0 when the Map has no entry
  failedFeeds,            \* url -> time, 0 when the Map has no entry
  \* what the properties look at (the code does not hold these):
  loaded,                 \* the archive as the run in progress loaded it
  readOk,                 \* whether that run read and parsed the archive file
  handed,                 \* the feeds handed to fetchFeedWithRetry, in order
  feedResult,             \* feed -> "none", "ok", "failed" or "skipped", this run
  lastRequest,            \* the last network request: its host and issue time,
                          \* the backoff delay set on its 403/429 (0 without),
                          \* and the issue time and backoff delay of the
                          \* request before it when that went to the same
                          \* host (0 otherwise), and the backoff expiry that
                          \* stood for the host when it was issued
  lastExit,               \* how the last process ended
  \* the harnesses that call one function of fetch-feeds.js on drawn inputs:
  calls,                  \* how many calls the throttle harness has made
  lastCall,               \* its last call of waitForDomainClearance
  mergeIn,                \* the archive, new articles and slice limit drawn
  once,                   \* the archive and display set after one merge
  twice,                  \* and after the same articles are merged again
  \* fetch-feeds-local.js:
  existingArticles,       \* the articles read from the display file
  existingIds,            \* the Set of ids its loop tests and extends
  substackCount,          \* the Substack feeds fetched in this run
  served,                 \* what each run was served, feed by feed
  metrics,                \* logger.metrics of the FeedLogger of the process
  \* what has happened, kept to state the properties:
  trace,                  \* the last feed handed to fetchFeedWithRetry: the
                          \* requests made for it, the calls of
                          \* waitForDomainClearance, and when
                          \* fetchFeedWithRetry was called and returned
  archiveBefore,          \* the archive file as it was when the run started
  archiveWrites,          \* the writes of the archive file in this run
  placed,                 \* url by url: when failedFeeds.set was last called
                          \* for it, and in which run
  backoffTrial,           \* calculateRateLimitBackoff over successive attempts
  itemTrial,              \* two items, and what parseXML and the enrichment
                          \* of fetchFeedWithRetry make of them
  \* fetch-feeds-parallel.js:
  runners,                \* runner by runner: where runWithCustomFeeds is, its
                          \* feeds, loop index, existingArticles, existingIds
                          \* and results.articles
  burstTrial,             \* a run of the local loop over Substack feeds only:
                          \* how many there are, which fetches succeeded and
                          \* the wait taken after each
  batchTrial,             \* --total-batches, the values of --batch that have
                          \* run, and the feeds each of these runs selected
  proxyManager            \* fetch-with-proxy.js: the fields of ProxyManager,
                          \* and its last getNextProxy call: the domain, the
                          \* blacklist when it was called and what it returned

vars == << catalog, clock, pc, runs, archiveFile, displayFile, articlesArchive,
           interleavedFeeds, idx, attempt, allArticles, domainLastRequested,
           lastSubstackRequest, domainRateLimitBackoff, failedFeeds,
           loaded, readOk, handed, feedResult, lastRequest, lastExit,
           calls, lastCall, mergeIn, once, twice,
           existingArticles, existingIds, substackCount, served, metrics,
           trace, archiveBefore, archiveWrites, placed,
           backoffTrial, itemTrial, runners, burstTrial, batchTrial,
           proxyManager >>

fileVars == << archiveFile, displayFile >>
throttleVars == << domainLastRequested, lastSubstackRequest,
                   domainRateLimitBackoff, failedFeeds >>
loopVars == << interleavedFeeds, idx, attempt, allArticles, articlesArchive >>
histVars == << loaded, readOk, handed, feedResult, lastRequest >>
harnessVars == << calls, lastCall, mergeIn, once, twice >>
localVars == << existingArticles, existingIds, substackCount, served, metrics >>
callVars == << batchTrial, proxyManager >>
trialVars == << backoffTrial, itemTrial, runners, burstTrial, callVars >>
runHist == << trace, archiveBefore, archiveWrites >>
mainHist == << runHist, placed >>
otherVars == << harnessVars, localVars, trialVars >>

NoFile == [state |-> "missing", articles |-> <<>>]
NoRequest == [host |-> "", at |-> 0, previous |-> 0, limited |-> 0,
              limitedBefore |-> 0, backoffUntil |-> 0]

\* the module-level Maps and RATE_LIMIT.lastSubstackRequest of a new process
NoHostTimes == [h \in Hosts |-> 0]
NoUrlTimes == [u \in Urls |-> 0]

NoCall == [host |-> "", entered |-> 0, previous |-> 0, previousSubstack |-> 0,
           recorded |-> 0]
NoMerge == [archive |-> <<>>, display |-> <<>>]
NoInput == [archive |-> <<>>, batch |-> <<>>, limit |-> 0]
NoTrace == [feed |-> 0, requests |-> <<>>, clearances |-> 0,
            calledAt |-> 0, returnedAt |-> 0, total |-> 0]
NoPlace == [u \in Urls |-> [at |-> 0, run |-> 0]]
NoMetrics == [successful |-> 0, failed |-> 0, newArticles |-> 0]
NoBackoffTrial == [host |-> "", first |-> 0, delays |-> <<>>]
NoItemTrial == [feeds |-> <<>>, items |-> <<>>, times |-> <<>>, records |-> <<>>]
Runners == {1, 2}
NoRunner == [pc |-> "idle", feeds |-> <<>>, i |-> 1, existingArticles |-> <<>>,
             existingIds |-> {}, articles |-> <<>>]
NoRunners == [r \in Runners |-> NoRunner]
NoBurstTrial == [n |-> 0, ok |-> <<>>, waits |-> <<>>]
NoBatchTrial == [total |-> 0, ran |-> {}, feeds |-> <<>>]
\* new ProxyManager() (fetch-with-proxy.js lines 54-59); a proxy is a
\* number from 1, and 0 stands for null and for a domain without an entry
\* in successfulProxies
ProxyDomains == {"one.substack.com", "two.substack.com"}
NoProxyManager ==
  [proxies |-> <<>>, blacklist |-> {}, currentIndex |-> 0,
   successfulProxies |-> [d \in ProxyDomains |-> 0],
   domain |-> "", blacklistBefore |-> {}, returned |-> 0]

\* no process has run: no files, and the memory of a process not yet started
Fresh ==
  /\ clock = StartTime
  /\ runs = 0
  /\ archiveFile = NoFile
  /\ displayFile = NoFile
  /\ articlesArchive = <<>>
  /\ interleavedFeeds = <<>>
  /\ idx = 1
  /\ attempt = 1
  /\ allArticles = <<>>
  /\ domainLastRequested = NoHostTimes
  /\ lastSubstackRequest = 0
  /\ domainRateLimitBackoff = NoHostTimes
  /\ failedFeeds = NoUrlTimes
  /\ loaded = <<>>
  /\ readOk = FALSE
  /\ handed = <<>>
  /\ feedResult = [f \in FeedIx |-> "none"]
  /\ lastRequest = NoRequest
  /\ lastExit = "none"
  /\ calls = 0
  /\ lastCall = NoCall
  /\ once = NoMerge
  /\ twice = NoMerge
  /\ existingArticles = <<>>
  /\ existingIds = {}
  /\ substackCount = 0
  /\ served = <<>>
  /\ metrics = NoMetrics
  /\ trace = NoTrace
  /\ archiveBefore = NoFile
  /\ archiveWrites = 0
  /\ placed = NoPlace
  /\ runners = NoRunners
  /\ burstTrial = NoBurstTrial
  /\ batchTrial = NoBatchTrial
  /\ proxyManager = NoProxyManager

Init ==
  /\ Fresh
  /\ catalog \in Catalogs
  /\ pc = "idle"
  /\ mergeIn = NoInput
  /\ backoffTrial = NoBackoffTrial
  /\ itemTrial = NoItemTrial

\* ------------------------------------------------------------- fetchAllFeeds

\* a variant that starts every run from an empty archive
LoadArchiveEmpty(file) == <<>>

\* lines 536-544: the archive object after the try block, for the archive
\* file as it is (missing or unreadable: the catch leaves {})
LoadArchive(file) == IF file.state = "ok" THEN file.articles ELSE <<>>

\* when the next process starts: at its scheduled time, or at once if that
\* has passed
NextStart(now, started) == Max(now, StartTime + started * RunPeriod)

\* node fetch-feeds.js up to the call of processFeeds (lines 497-578), for
\* at most maxRuns starts: a new process, so the module-level state is new;
\* the archive file is read, and any failure to read or parse it leaves
\* articlesArchive = {} (lines 536-544)
Start(maxRuns) ==
  /\ pc = "idle"
  /\ runs < maxRuns
  /\ runs' = runs + 1
  /\ clock' = NextStart(clock, runs)
  /\ LET ok == archiveFile.state = "ok"
     IN /\ \E order \in InterleavedOrders(catalog) : interleavedFeeds' = order
        /\ articlesArchive' = LoadArchive(archiveFile)
        /\ loaded' = (IF ok THEN archiveFile.articles ELSE <<>>)
        /\ readOk' = ok
  /\ idx' = 1
  /\ attempt' = 1
  /\ allArticles' = <<>>
  /\ domainLastRequested' = NoHostTimes
  /\ lastSubstackRequest' = 0
  /\ domainRateLimitBackoff' = NoHostTimes
  /\ failedFeeds' = NoUrlTimes
  /\ handed' = <<>>
  /\ feedResult' = [f \in FeedIx |-> "none"]
  /\ lastRequest' = NoRequest
  /\ trace' = NoTrace
  /\ archiveBefore' = archiveFile
  /\ archiveWrites' = 0
  /\ pc' = "fetch"
  /\ UNCHANGED << otherVars, catalog, fileVars, lastExit, placed >>

StartRun == Start(MaxRuns)

\* ----------------------------------------- processFeeds, fetchFeedWithRetry

\* a loop that passes over the feed after one that failed
NextFeedSkipAfterFailure(i, n, failed) == IF failed THEN i + 2 ELSE i + 1

\* a variant in which a failed feed ends the loop
NextFeedAbort(i, n, failed) == IF failed THEN n + 1 ELSE i + 1

\* a variant without the skip list
FailedRecentlyNever(now, failedUntil) == FALSE

\* lines 329-330: the feed is on the skip list at time now
FailedRecently(now, failedUntil) == now < failedUntil

\* a variant that allows one attempt more
MayRetryOnceMore(attemptNumber) == attemptNumber < retryAttempts + 1

\* line 423: a failed attempt is followed by another one
MayRetry(attemptNumber) == attemptNumber < retryAttempts

\* a loop that saved the archive after every feed
FileAfterFeedSaved(file, archive, result) ==
  IF result = <<>> THEN file
  ELSE [state |-> "ok", articles |-> MergeArchive(archive, result)]

\* the archive file after fetchFeedWithRetry has returned result for a feed
\* (lines 479-487): the loop of processFeeds writes no file
FileAfterFeed(file, archive, result) == file

\* the for loop of processFeeds (lines 471-492): the index after the feed at
\* i, whatever fetchFeedWithRetry returned for it
NextFeed(i, n, failed) == i + 1

\* One call of fetchFeedWithRetry(feed, attempt) for the feed at idx, from
\* its first line to its return or to the recursive call of line 425, and,
\* when it returns, the rest of the loop body of processFeeds (lines 480-487).
\*   out, payload   what the request ends with and, when ok, what it returns
\*   rnd            getRandomSubstackDelay()
\*   j1..j5         the jitters of the delays; ft the time the request takes
FetchAttempt(out, payload, rnd, j1, j2, j3, ft, j4, j5) ==
  LET n == Len(interleavedFeeds)
      ix == interleavedFeeds[idx]
      feed == AllFeeds[ix]
      domain == feed.host
      isSubstack == IsSubstackDomain(domain)
      skip == FailedRecently(clock, failedFeeds[feed.url])
      \* lines 337-340
      cleared == IF attempt = 1
                 THEN waitForDomainClearance(clock, domainLastRequested[domain],
                                             lastSubstackRequest, isSubstack, rnd, j1, j2)
                 ELSE clock
      \* lines 342-349
      issued == AfterBackoff(cleared, domainRateLimitBackoff[domain], j3)
      \* lines 369-372
      responded == issued + ft
      threw == out # "ok" \/ ParseThrows(payload)
      kind == IF out # "ok" THEN out ELSE "parseError"
      isRateLimit == IsRateLimitError(kind)
      retry == threw /\ MayRetry(attempt)
      retryWait == IF isRateLimit
                   THEN calculateRateLimitBackoff(domain, attempt)
                   ELSE retryDelay
      result == IF skip \/ threw THEN <<>>
                ELSE Enrich(parseXML(payload, responded), feed)
      returned == IF skip THEN clock ELSE responded
      last == idx = n
      gaveUp == ~skip /\ threw /\ ~retry /\ isRateLimit
      was == IF attempt = 1 THEN NoTrace ELSE trace
  IN /\ pc = "fetch"
     /\ idx <= n
     /\ trace' =
          [feed |-> ix,
           requests |-> IF skip THEN was.requests
                        ELSE Append(was.requests, IF threw THEN kind ELSE "ok"),
           clearances |-> IF ~skip /\ attempt = 1 THEN was.clearances + 1
                          ELSE was.clearances,
           calledAt |-> IF attempt = 1 THEN clock ELSE was.calledAt,
           returnedAt |-> IF ~skip /\ retry THEN was.returnedAt ELSE returned,
           total |-> IF skip THEN trace.total ELSE trace.total + 1]
     /\ placed' = (IF gaveUp
                   THEN [placed EXCEPT ![feed.url] =
                           [at |-> responded, run |-> runs]]
                   ELSE placed)
     /\ archiveFile' = FileAfterFeed(archiveFile, articlesArchive, result)
     /\ handed' = (IF attempt = 1 THEN Append(handed, ix) ELSE handed)
     /\ IF skip
        THEN UNCHANGED << throttleVars, lastRequest >>
        ELSE /\ domainLastRequested' =
                  (IF attempt = 1
                   THEN [domainLastRequested EXCEPT ![domain] = cleared]
                   ELSE domainLastRequested)
             /\ lastSubstackRequest' =
                  (IF attempt = 1 /\ isSubstack THEN cleared ELSE lastSubstackRequest)
             /\ lastRequest' =
                  [host |-> domain, at |-> issued,
                   previous |-> IF lastRequest.host = domain THEN lastRequest.at
                                ELSE 0,
                   limited |-> IF out = "rateLimited"
                               THEN calculateRateLimitBackoff(domain, attempt)
                               ELSE 0,
                   limitedBefore |-> IF lastRequest.host = domain
                                     THEN lastRequest.limited ELSE 0,
                   backoffUntil |-> domainRateLimitBackoff[domain]]
             /\ domainRateLimitBackoff' =
                  BackoffAfterResponse(domainRateLimitBackoff, domain, out,
                                       responded, attempt)
             /\ failedFeeds' =
                  (IF threw /\ ~retry /\ isRateLimit
                   THEN [failedFeeds EXCEPT ![feed.url] = responded + failedFeedCooldown]
                   ELSE failedFeeds)
     /\ IF ~skip /\ retry
        THEN /\ clock' = responded + Delay(retryWait, j4)
             /\ attempt' = attempt + 1
             /\ UNCHANGED << pc, idx, allArticles, feedResult >>
        ELSE /\ allArticles' = allArticles \o result
             /\ feedResult' = [feedResult EXCEPT ![ix] =
                                 IF skip THEN "skipped"
                                 ELSE IF threw THEN "failed" ELSE "ok"]
             /\ clock' = (IF last THEN returned
                          ELSE returned + Delay(delayBetweenRequests, j5))
             /\ idx' = NextFeed(idx, n, skip \/ threw)
             /\ attempt' = 1
             /\ pc' = (IF idx' > n THEN "merge" ELSE "fetch")
     /\ UNCHANGED << otherVars, catalog, runs, displayFile, articlesArchive,
                     interleavedFeeds, loaded, readOk, lastExit, archiveBefore,
                     archiveWrites >>

\* the jitter of a delay is anywhere in 0..MaxJitter; its two ends are drawn
Jitters == {0, MaxJitter}
FetchTimes == {0, MaxFetchTime}

\* the payloads of a feed whose dates are all given and well-formed, and
\* the one that is malformed
DatedPayloads(name) ==
  {p \in Payloads(name) :
     \/ \A i \in 1..Len(p) : p[i].pubDate # NoPubDate /\ p[i].pubDate # BadPubDate
     \/ ParseThrows(p)}

\* the jitters a wait may add: none when the wait is not taken
JitterOf(taken) == IF taken THEN Jitters ELSE {0}

\* a step of the fetch loop with the timing of every wait and request drawn
\* (jA is the jitter of the wait that ends the step: line 424 or line 486)
FetchTimed ==
  /\ pc = "fetch"
  /\ idx <= Len(interleavedFeeds)
  /\ LET feed == AllFeeds[interleavedFeeds[idx]]
         first == attempt = 1 /\ clock >= failedFeeds[feed.url]
         global == first /\ IsSubstackDomain(feed.host)
                         /\ clock - lastSubstackRequest < globalSubstackDelay
         spaced == first /\ clock - domainLastRequested[feed.host]
                              < RequiredDelay(IsSubstackDomain(feed.host), substackDelayMax)
         standing == domainRateLimitBackoff[feed.host] # 0
     IN \E out \in Outcomes, ft \in FetchTimes, jA \in Jitters,
           j1 \in JitterOf(global), j2 \in JitterOf(spaced), j3 \in JitterOf(standing) :
          \E payload \in DatedPayloads(feed.name) :
            FetchAttempt(out, payload, substackDelayMax, j1, j2, j3, ft, jA, jA)

\* what a request ends with when the host answers or cannot be reached
PlainOutcomes == {"ok", "networkError"}

\* a step of the fetch loop with every payload drawn, every wait and request
\* taking its nominal time, and no host rate-limiting
Fetch ==
  /\ pc = "fetch"
  /\ idx <= Len(interleavedFeeds)
  /\ \E out \in PlainOutcomes, rnd \in SubstackRandomDelays :
       \E payload \in Payloads(AllFeeds[interleavedFeeds[idx]].name) :
         FetchAttempt(out, payload, rnd, 0, 0, 0, 0, 0, 0)

\* lines 580-605: merge, sort, and the write of the archive file
WriteArchive ==
  /\ pc = "merge"
  /\ articlesArchive' = MergeArchive(articlesArchive, allArticles)
  /\ archiveFile' = [state |-> "ok", articles |-> articlesArchive']
  /\ archiveWrites' = archiveWrites + 1
  /\ pc' = "writeDisplay"
  /\ UNCHANGED << otherVars, catalog, clock, runs, displayFile, interleavedFeeds, idx, attempt,
                  allArticles, throttleVars, histVars, lastExit, trace,
                  archiveBefore, placed >>

\* lines 607-616: the write of the display file, which is the last thing
\* the script does to its files
WriteDisplay ==
  /\ pc = "writeDisplay"
  /\ displayFile' =
       [state |-> "ok",
        articles |-> RecentArticles(AllArchivedArticles(articlesArchive), clock,
                                    displayLimit)]
  /\ pc' = "done"
  /\ UNCHANGED << otherVars, catalog, clock, runs, archiveFile, loopVars, throttleVars,
                  histVars, lastExit, mainHist >>

\* the memory of a process that has ended
ProcessGone ==
  /\ pc' = "idle"
  /\ articlesArchive' = <<>>
  /\ interleavedFeeds' = <<>>
  /\ idx' = 1
  /\ attempt' = 1
  /\ allArticles' = <<>>
  /\ domainLastRequested' = NoHostTimes
  /\ lastSubstackRequest' = 0
  /\ domainRateLimitBackoff' = NoHostTimes
  /\ failedFeeds' = NoUrlTimes
  /\ loaded' = <<>>
  /\ readOk' = FALSE
  /\ handed' = <<>>
  /\ feedResult' = [f \in FeedIx |-> "none"]
  /\ lastRequest' = NoRequest
  /\ trace' = NoTrace
  /\ archiveBefore' = NoFile
  /\ archiveWrites' = 0

\* fetchAllFeeds has returned, or a signal has stopped the process: the
\* process is gone, and its memory with it
Exit ==
  /\ pc \in {"done", "stopped"}
  /\ ProcessGone
  /\ lastExit' = (IF pc = "done" THEN "completed" ELSE "interrupted")
  /\ UNCHANGED << otherVars, catalog, clock, runs, fileVars, placed >>

\* SIGINT or SIGTERM (lines 646-655): process.exit(0) wherever the script
\* is. Nothing is written; what the process held is shown until Exit.
Interrupt ==
  /\ pc \in {"fetch", "merge", "writeDisplay"}
  /\ pc' = "stopped"
  /\ UNCHANGED << otherVars, catalog, clock, runs, fileVars, loopVars,
                  throttleVars, histVars, lastExit, mainHist >>

\* the same while fs.writeFile(archivePath, ...) of line 605 is under way:
\* the file is left truncated or partly written
InterruptWrite ==
  /\ pc = "merge"
  /\ pc' = "stopped"
  /\ archiveFile' = [state |-> "corrupt", articles |-> <<>>]
  /\ archiveWrites' = archiveWrites + 1
  /\ UNCHANGED << otherVars, catalog, clock, runs, displayFile, loopVars,
                  throttleVars, histVars, lastExit, trace, archiveBefore, placed >>

\* runs of fetch-feeds.js, one after the other, over every payload
Next ==
  \/ StartRun \/ Fetch \/ WriteArchive \/ WriteDisplay \/ Exit
  \/ Interrupt \/ InterruptWrite

Spec == Init /\ [][Next]_vars

\* one run of fetch-feeds.js with the timing of every wait and request drawn
StartOnce == Start(1)

NextTimed ==
  \/ StartOnce \/ FetchTimed \/ WriteArchive \/ WriteDisplay \/ Exit
  \/ Interrupt \/ InterruptWrite

SpecTimed == Init /\ [][NextTimed]_vars

\* the same run when no signal arrives and every request and every timed
\* wait completes: an attempt of fetchFeedWithRetry that can be made is
\* made, and the synchronous merge and the write that follow the loop run
NextFair == StartOnce \/ FetchTimed \/ WriteArchive \/ WriteDisplay \/ Exit

SpecFair ==
  /\ Init
  /\ [][NextFair]_vars
  /\ WF_vars(FetchTimed)
  /\ WF_vars(WriteArchive)

\* the same over catalogs in which two feeds with different urls share a host
InitHosts ==
  /\ Fresh
  /\ catalog \in HostCatalogs
  /\ pc = "idle"
  /\ mergeIn = NoInput
  /\ backoffTrial = NoBackoffTrial
  /\ itemTrial = NoItemTrial

SpecHosts == InitHosts /\ [][NextTimed]_vars

\* what a request ends with when the host answers, with the feed or with 429
LimitedOutcomes == {"ok", "rateLimited"}

\* a step of the fetch loop against hosts that may rate-limit
FetchLimited ==
  /\ pc = "fetch"
  /\ idx <= Len(interleavedFeeds)
  /\ \E out \in LimitedOutcomes :
       \E payload \in {p \in DatedPayloads(AllFeeds[interleavedFeeds[idx]].name) :
                          ~ParseThrows(p)} :
         FetchAttempt(out, payload, substackDelayMax, 0, 0, 0, 0, 0, 0)

\* what a request ends with when the host answers with the feed, with
\* another status than 403/429, or with such a status and a status text
\* that names 429 (as in 'HTTP 502: Upstream returned 429')
WordedOutcomes == {"ok", "httpError", "httpErrorNaming429"}

\* a step of the fetch loop against such hosts
FetchWorded ==
  /\ pc = "fetch"
  /\ idx <= Len(interleavedFeeds)
  /\ \E out \in WordedOutcomes :
       \E payload \in DatedPayloads(AllFeeds[interleavedFeeds[idx]].name) :
         FetchAttempt(out, payload, substackDelayMax, 0, 0, 0, 0, 0, 0)

\* one run of fetch-feeds.js against such hosts
NextWorded == StartOnce \/ FetchWorded \/ WriteArchive \/ WriteDisplay \/ Exit

SpecWorded == Init /\ [][NextWorded]_vars

\* runs of fetch-feeds.js, one after the other, against such hosts
NextRuns == StartRun \/ FetchLimited \/ WriteArchive \/ WriteDisplay \/ Exit

SpecRuns == Init /\ [][NextRuns]_vars

\* ------------------------------------------ waitForDomainClearance, alone

\* how many calls of waitForDomainClearance are made
MaxCalls == 3

\* the time between the return of one call and the next call, in seconds
Elapsed == {0, 10, nonSubstackDelay, substackDelayMax, substackMinDomainDelay}

InitThrottle ==
  /\ Fresh
  /\ catalog = <<>>
  /\ pc = "throttle"
  /\ mergeIn = NoInput
  /\ backoffTrial = NoBackoffTrial
  /\ itemTrial = NoItemTrial

\* lines 273-315, called for a host some time after the call before
CallClearance ==
  /\ pc = "throttle"
  /\ calls < MaxCalls
  /\ \E domain \in Hosts, d \in Elapsed, rnd \in SubstackRandomDelays :
       LET now == clock + d
           isSubstack == IsSubstackDomain(domain)
           previous == domainLastRequested[domain]
           global == isSubstack /\ now - lastSubstackRequest < globalSubstackDelay
           spaced == now - previous < RequiredDelay(isSubstack, rnd)
       IN \E j1 \in JitterOf(global), j2 \in JitterOf(spaced) :
            LET recorded == waitForDomainClearance(now, previous,
                              lastSubstackRequest, isSubstack, rnd, j1, j2)
            IN /\ (~isSubstack => rnd = substackDelayMin)
               /\ clock' = recorded
               /\ domainLastRequested' =
                    [domainLastRequested EXCEPT ![domain] = recorded]
               /\ lastSubstackRequest' =
                    IF isSubstack THEN recorded ELSE lastSubstackRequest
               /\ lastCall' = [host |-> domain, entered |-> now,
                               previous |-> previous,
                               previousSubstack |-> lastSubstackRequest,
                               recorded |-> recorded]
               /\ calls' = calls + 1
  /\ UNCHANGED << catalog, pc, runs, fileVars, loopVars, domainRateLimitBackoff,
                  failedFeeds, histVars, lastExit, mergeIn, once, twice,
                  localVars, mainHist, trialVars >>

SpecThrottle == InitThrottle /\ [][CallClearance]_vars

\* ------------------------------------- the merge of fetchAllFeeds, alone

\* how many records the archive is built from, how many are merged into it,
\* and the largest slice limit
MaxArchive == 2
MaxBatch == 2
MaxLimit == 2

RECURSIVE SeqsUpTo(_, _)
SeqsUpTo(S, n) ==
  IF n = 0 THEN {<<>>}
  ELSE LET shorter == SeqsUpTo(S, n - 1)
       IN shorter \cup {Append(s, x) : s \in {t \in shorter : Len(t) = n - 1},
                                        x \in S}

\* every record fetchFeedWithRetry can return from the payloads, parsed at
\* StartTime
ArticlesOfFeed(f) ==
  UNION {Range(Enrich(parseXML(p, StartTime), AllFeeds[f])) :
           p \in {q \in Payloads(AllFeeds[f].name) : ~ParseThrows(q)}}
ArticleUniverse == UNION {ArticlesOfFeed(f) : f \in GeneralFeeds}

\* the archives earlier runs can have written, and the batches of one run
Archives == {MergeArchive(<<>>, s) : s \in SeqsUpTo(ArticleUniverse, MaxArchive)}
Batches == SeqsUpTo(ArticleUniverse, MaxBatch)

\* lines 580-595: the archive and the display set the run computes
Merge(archive, articles, now, limit) ==
  LET merged == MergeArchive(archive, articles)
  IN [archive |-> merged,
      display |-> RecentArticles(AllArchivedArticles(merged), now, limit)]

InitMerge ==
  /\ Fresh
  /\ catalog = <<>>
  /\ pc = "merging"
  /\ mergeIn \in [archive : Archives, batch : Batches, limit : 1..MaxLimit]
  /\ backoffTrial = NoBackoffTrial
  /\ itemTrial = NoItemTrial

MergeOnce ==
  /\ pc = "merging"
  /\ once' = Merge(mergeIn.archive, mergeIn.batch, clock, mergeIn.limit)
  /\ pc' = "mergedOnce"
  /\ UNCHANGED << catalog, clock, runs, fileVars, loopVars, throttleVars,
                  histVars, lastExit, calls, lastCall, mergeIn, twice,
                  localVars, mainHist, trialVars >>

MergeAgain ==
  /\ pc = "mergedOnce"
  /\ twice' = Merge(once.archive, mergeIn.batch, clock, mergeIn.limit)
  /\ pc' = "mergedTwice"
  /\ UNCHANGED << catalog, clock, runs, fileVars, loopVars, throttleVars,
                  histVars, lastExit, calls, lastCall, mergeIn, once,
                  localVars, mainHist, trialVars >>

NextMerge == MergeOnce \/ MergeAgain

SpecMerge == InitMerge /\ [][NextMerge]_vars

\* ----------------------------------------------------- fetch-feeds-local.js

\* RATE_LIMIT of fetch-feeds-local.js (lines 16-32), in seconds
localSubstackDelayMin == 30
localSubstackDelayMax == 90
substackBurstDelay == 300
localNonSubstackDelay == 5
localRetryAttempts == 3
localRetryDelay == 30
\* the items taken from one feed (line 198), the Substack feeds between two
\* long pauses (line 243) and the articles kept in the display file (line 262)
itemLimit == 10
burstEvery == 5
localDisplayLimit == 500

\* the hexadecimal digits of crypto.createHash('md5').update(s).digest('hex')
\* for s = `${feedSlug}-${key}`, for the strings of LocalPayloads
md5Hex(feedSlug, key) ==
  CASE
    \* md5("alpha-https://alpha.example/p/1") = 580e0425b84e1947c488236719134848
       feedSlug = "alpha" /\ key = "https://alpha.example/p/1" ->
        << 5,8,0,14,0,4,2,5,11,8,4,14,1,9,4,7,12,4,8,8,2,3,6,7,1,9,1,3,4,8,4,8 >>
    \* md5("alpha-guid-2") = 9d1afc7f1b960254ae0a419182cc59b3
    [] feedSlug = "alpha" /\ key = "guid-2" ->
        << 9,13,1,10,15,12,7,15,1,11,9,6,0,2,5,4,10,14,0,10,4,1,9,1,8,2,12,12,5,9,11,3 >>
    \* md5("alpha-Third") = f715a277530580f00eec21979f51b6c2
    [] feedSlug = "alpha" /\ key = "Third" ->
        << 15,7,1,5,10,2,7,7,5,3,0,5,8,0,15,0,0,14,14,12,2,1,9,7,9,15,5,1,11,6,12,2 >>
    \* md5("one-https://one.substack.com/p/1") = 1582151d2a5e349114916cfdb0a6ce12
    [] feedSlug = "one" /\ key = "https://one.substack.com/p/1" ->
        << 1,5,8,2,1,5,1,13,2,10,5,14,3,4,9,1,1,4,9,1,6,12,15,13,11,0,10,6,12,14,1,2 >>
    \* md5("beta-https://alpha.example/p/1") = e187ef3dce5c7d7e1e8123b0ad24688c
    [] feedSlug = "beta" /\ key = "https://alpha.example/p/1" ->
        << 14,1,8,7,14,15,3,13,12,14,5,12,7,13,7,14,1,14,8,1,2,3,11,0,10,13,2,4,6,8,8,12 >>
    \* md5("one-https://one.substack.com/p/2") = 5240f975e86e27ac3ff47f5f94a646a5
    [] feedSlug = "one" /\ key = "https://one.substack.com/p/2" ->
        << 5,2,4,0,15,9,7,5,14,8,6,14,2,7,10,12,3,15,15,4,7,15,5,15,9,4,10,6,4,6,10,5 >>
    \* md5("one-https://one.substack.com/p/3") = c0ddf601683ffc623569400c776017ae
    [] feedSlug = "one" /\ key = "https://one.substack.com/p/3" ->
        << 12,0,13,13,15,6,0,1,6,8,3,15,15,12,6,2,3,5,6,9,4,0,0,12,7,7,6,0,1,7,10,14 >>
    \* md5("one-https://one.substack.com/p/4") = a2c91526674e59486445bf2c6ddf7088
    [] feedSlug = "one" /\ key = "https://one.substack.com/p/4" ->
        << 10,2,12,9,1,5,2,6,6,7,4,14,5,9,4,8,6,4,4,5,11,15,2,12,6,13,13,15,7,0,8,8 >>
    \* md5("one-https://one.substack.com/p/5") = eefa0486ef3a4675c73ec5a7b5ca94a9
    [] feedSlug = "one" /\ key = "https://one.substack.com/p/5" ->
        << 14,14,15,10,0,4,8,6,14,15,3,10,4,6,7,5,12,7,3,14,12,5,10,7,11,5,12,10,9,4,10,9 >>
    \* md5("one-https://one.substack.com/p/6") = 0993883a052ab7f9e4ec3f30eeeefb10
    [] feedSlug = "one" /\ key = "https://one.substack.com/p/6" ->
        << 0,9,9,3,8,8,3,10,0,5,2,10,11,7,15,9,14,4,14,12,3,15,3,0,14,14,14,14,15,11,1,0 >>
    \* md5("one-https://one.substack.com/p/7") = 20802aefe2da71a5eb2c822dab2bdce4
    [] feedSlug = "one" /\ key = "https://one.substack.com/p/7" ->
        << 2,0,8,0,2,10,14,15,14,2,13,10,7,1,10,5,14,11,2,12,8,2,2,13,10,11,2,11,13,12,14,4 >>
    \* md5("one-https://one.substack.com/p/8") = 53feca45978497e2de6e387df2fec580
    [] feedSlug = "one" /\ key = "https://one.substack.com/p/8" ->
        << 5,3,15,14,12,10,4,5,9,7,8,4,9,7,14,2,13,14,6,14,3,8,7,13,15,2,15,14,12,5,8,0 >>
    \* md5("one-https://one.substack.com/p/9") = c5d31823e3b51d7774a57f9827b1c447
    [] feedSlug = "one" /\ key = "https://one.substack.com/p/9" ->
        << 12,5,13,3,1,8,2,3,14,3,11,5,1,13,7,7,7,4,10,5,7,15,9,8,2,7,11,1,12,4,4,7 >>
    \* md5("one-https://one.substack.com/p/10") = 4a6627081a74f5281e274e8b75dc15c5
    [] feedSlug = "one" /\ key = "https://one.substack.com/p/10" ->
        << 4,10,6,6,2,7,0,8,1,10,7,4,15,5,2,8,1,14,2,7,4,14,8,11,7,5,13,12,1,5,12,5 >>
    \* md5("one-https://one.substack.com/p/11") = 4ed4131abc7922c8b56d27158ee9f684
    [] feedSlug = "one" /\ key = "https://one.substack.com/p/11" ->
        << 4,14,13,4,1,3,1,10,11,12,7,9,2,2,12,8,11,5,6,13,2,7,1,5,8,14,14,9,15,6,8,4 >>

\* article.link || article.guid || article.title   (line 56)
UniqueKey(item) ==
  IF item.link # "" THEN item.link
  ELSE IF item.guid # "" THEN item.guid ELSE item.title

\* generateArticleId(article, feedSlug)   (lines 55-58)
generateArticleId(item, feedSlug) == md5Hex(feedSlug, UniqueKey(item))

LocalItem(l, g, t, p) == [link |-> l, guid |-> g, title |-> t, pubDate |-> p]

\* what parser.parseURL(feed.url) can return as feedData.items
LocalPayloads(name) ==
  CASE name = "alpha" ->
         { << LocalItem("https://alpha.example/p/1", "", "First", RecentDate) >>,
           << LocalItem("", "guid-2", "Second", NewerDate),
              LocalItem("", "", "Third", NoPubDate),
              LocalItem("", "guid-2", "Second", NewerDate) >> }
    [] name = "one" ->
         { << LocalItem("https://one.substack.com/p/1", "", "Hello", NewerDate) >>,
           \* eleven items, the oldest first
           <<
             LocalItem("https://one.substack.com/p/1", "", "Post 1", RecentDate + 1),
             LocalItem("https://one.substack.com/p/2", "", "Post 2", RecentDate + 2),
             LocalItem("https://one.substack.com/p/3", "", "Post 3", RecentDate + 3),
             LocalItem("https://one.substack.com/p/4", "", "Post 4", RecentDate + 4),
             LocalItem("https://one.substack.com/p/5", "", "Post 5", RecentDate + 5),
             LocalItem("https://one.substack.com/p/6", "", "Post 6", RecentDate + 6),
             LocalItem("https://one.substack.com/p/7", "", "Post 7", RecentDate + 7),
             LocalItem("https://one.substack.com/p/8", "", "Post 8", RecentDate + 8),
             LocalItem("https://one.substack.com/p/9", "", "Post 9", RecentDate + 9),
             LocalItem("https://one.substack.com/p/10", "", "Post 10", RecentDate + 10),
             LocalItem("https://one.substack.com/p/11", "", "Post 11", RecentDate + 11) >> }
    [] OTHER ->
         { << LocalItem("https://alpha.example/p/1", "", "First", OldDate) >> }

Unserved == [ok |-> FALSE, items |-> <<>>]

\* the article of lines 203-222 (the fields that are compared); the id it
\* stores is the first 8 digits of the 32
LocalArticle(item, feed, now) ==
  [id |-> SubSeq(generateArticleId(item, feed.name), 1, 8),
   title |-> item.title,
   link |-> IF item.link # "" THEN item.link ELSE item.guid,
   publishedAt |-> IF item.pubDate = NoPubDate THEN now ELSE item.pubDate,
   publication |-> feed.name]

\* the forEach of lines 198-228 over the items from position k: the articles
\* pushed and the ids added to existingIds
RECURSIVE ProcessItems(_, _, _, _, _, _)
ProcessItems(items, k, feed, now, ids, pushed) ==
  IF k > Len(items) THEN [ids |-> ids, pushed |-> pushed]
  ELSE LET articleId == generateArticleId(items[k], feed.name)
       IN IF articleId \notin ids
          THEN ProcessItems(items, k + 1, feed, now, ids \cup {articleId},
                            Append(pushed, LocalArticle(items[k], feed, now)))
          ELSE ProcessItems(items, k + 1, feed, now, ids, pushed)

\* a variant that counts the items of the feed as new articles
logFeedSuccessItems(m, itemCount, newArticles) ==
  [m EXCEPT !.successful = @ + 1, !.newArticles = @ + itemCount]

\* FeedLogger.logFeedSuccess(feedName, itemCount, newArticles) and
\* FeedLogger.logFeedFailure(feedName, feedUrl, error) on metrics m
\* (enhanced-logger.js, lines 35-61)
logFeedSuccess(m, itemCount, newArticles) ==
  [m EXCEPT !.successful = @ + 1, !.newArticles = @ + newArticles]

logFeedFailure(m) == [m EXCEPT !.failed = @ + 1]

\* the delays fetchWithRetry (lines 92-105) makes before failed attempts
\* are followed by another one
RECURSIVE RetryBackoff(_)
RetryBackoff(failed) ==
  IF failed = 0 THEN 0
  ELSE RetryBackoff(failed - 1) + localRetryDelay * Pow(2, failed - 1)

\* delayMs of lines 237-251, for the feed just processed: rnd is the value
\* of getRandomDelay, count the value of substackCount
LocalDelay(isSubstack, count, rnd) ==
  IF isSubstack
  THEN IF count > 0 /\ count % burstEvery = 0 THEN substackBurstDelay ELSE rnd
  ELSE localNonSubstackDelay

\* feeds.filter(f => isSubstackFeed(f.url)) and its complement
RECURSIVE FilterFeeds(_, _)
FilterFeeds(feeds, substack) ==
  IF feeds = <<>> THEN <<>>
  ELSE (IF AllFeeds[Head(feeds)].urlSubstack = substack THEN <<Head(feeds)>>
        ELSE <<>>) \o FilterFeeds(Tail(feeds), substack)

\* [...otherFeeds, ...substackFeeds]   (lines 149-155)
OrderedFeeds(feeds) == FilterFeeds(feeds, FALSE) \o FilterFeeds(feeds, TRUE)

InitLocal ==
  /\ Fresh
  /\ catalog \in Catalogs
  /\ pc = "localIdle"
  /\ mergeIn = NoInput
  /\ backoffTrial = NoBackoffTrial
  /\ itemTrial = NoItemTrial

\* lines 107-160: a run of the local fetcher reads the two files
LocalStart ==
  /\ pc = "localIdle"
  /\ runs < MaxRuns
  /\ runs' = runs + 1
  /\ clock' = NextStart(clock, runs)
  /\ existingArticles' = LoadArchive(displayFile)
  /\ articlesArchive' = LoadArchive(archiveFile)
  /\ interleavedFeeds' = OrderedFeeds(catalog)
  /\ allArticles' = <<>>
  /\ existingIds' = {existingArticles'[i].id : i \in 1..Len(existingArticles')}
  /\ substackCount' = 0
  /\ idx' = 1
  /\ served' = Append(served, [f \in FeedIx |-> Unserved])
  /\ pc' = "localFetch"
  /\ metrics' = NoMetrics
  /\ UNCHANGED << catalog, fileVars, attempt, throttleVars, histVars, lastExit,
                  harnessVars, mainHist, trialVars >>

\* lines 162-256: one round of the loop. failed is the number of attempts of
\* fetchWithRetry that threw; the last one throws when failed reaches
\* localRetryAttempts.
LocalFetch ==
  /\ pc = "localFetch"
  /\ idx <= Len(interleavedFeeds)
  /\ \E failed \in {0, 1, localRetryAttempts},
        rnd \in {localSubstackDelayMin, localSubstackDelayMax} :
       LET f == interleavedFeeds[idx]
           feed == AllFeeds[f]
           isSubstack == feed.urlSubstack
           threw == failed = localRetryAttempts
           fetched == clock + RetryBackoff(Min(failed, localRetryAttempts - 1))
           count == IF isSubstack /\ ~threw THEN substackCount + 1
                    ELSE substackCount
           delayMs == LocalDelay(isSubstack, count, rnd)
           last == idx = Len(interleavedFeeds)
       IN /\ (~isSubstack \/ last => rnd = localSubstackDelayMin)
          /\ \E items \in IF threw THEN {<<>>} ELSE LocalPayloads(feed.name) :
               LET taken == SubSeq(items, 1, Min(itemLimit, Len(items)))
                   done == ProcessItems(taken, 1, feed, fetched, existingIds,
                                        allArticles)
               IN /\ allArticles' = done.pushed
                  /\ existingIds' = done.ids
                  /\ served' = [served EXCEPT ![runs][f] =
                                  [ok |-> ~threw, items |-> items]]
                  /\ metrics' =
                       IF threw THEN logFeedFailure(metrics)
                       ELSE logFeedSuccess(metrics, Len(items),
                                           Len(done.pushed) - Len(allArticles))
          /\ substackCount' = count
          /\ clock' = IF last THEN fetched ELSE fetched + delayMs
          /\ idx' = idx + 1
          /\ pc' = IF last THEN "localSave" ELSE "localFetch"
  /\ UNCHANGED << catalog, runs, fileVars, articlesArchive, interleavedFeeds,
                  attempt, throttleVars, histVars, lastExit, harnessVars,
                  mainHist, trialVars,
                  existingArticles >>

\* lines 258-272: merge, sort, cut and write the two files
LocalSave ==
  /\ pc = "localSave"
  /\ LET mergedArticles == SortByDate(allArticles \o existingArticles)
         n == Len(mergedArticles)
         recentArticles == SubSeq(mergedArticles, 1, Min(localDisplayLimit, n))
         archivedArticles == SubSeq(mergedArticles, localDisplayLimit + 1, n)
     IN /\ displayFile' = [state |-> "ok", articles |-> recentArticles]
        /\ archiveFile' = [state |-> "ok",
                           articles |-> archivedArticles \o articlesArchive]
  /\ pc' = "localDone"
  /\ UNCHANGED << catalog, clock, runs, loopVars, throttleVars, histVars,
                  lastExit, harnessVars, localVars, mainHist, trialVars >>

\* fetchFeeds returns and the process ends
LocalExit ==
  /\ pc = "localDone"
  /\ pc' = "localIdle"
  /\ articlesArchive' = <<>>
  /\ interleavedFeeds' = <<>>
  /\ idx' = 1
  /\ allArticles' = <<>>
  /\ existingArticles' = <<>>
  /\ existingIds' = {}
  /\ substackCount' = 0
  /\ metrics' = NoMetrics
  /\ lastExit' = "completed"
  /\ UNCHANGED << catalog, clock, runs, fileVars, attempt, throttleVars,
                  histVars, harnessVars, served, mainHist, trialVars >>

NextLocal == LocalStart \/ LocalFetch \/ LocalSave \/ LocalExit

SpecLocal == InitLocal /\ [][NextLocal]_vars

\* -------------------------------------- calculateRateLimitBackoff, alone

\* the largest attempt number calculateRateLimitBackoff is called with
MaxAttempt == 10

InitBackoff ==
  /\ Fresh
  /\ catalog = <<>>
  /\ pc = "backoff"
  /\ mergeIn = NoInput
  /\ itemTrial = NoItemTrial
  /\ backoffTrial \in [host : Hosts, first : 1..MaxAttempt, delays : {<<>>}]

\* lines 440-447, called for the attempt after the last one
NextBackoff ==
  /\ pc = "backoff"
  /\ backoffTrial.first + Len(backoffTrial.delays) <= MaxAttempt
  /\ backoffTrial' =
       [backoffTrial EXCEPT !.delays =
          Append(@, calculateRateLimitBackoff(
                      backoffTrial.host,
                      backoffTrial.first + Len(backoffTrial.delays)))]
  /\ UNCHANGED << catalog, clock, pc, runs, fileVars, loopVars, throttleVars,
                  histVars, lastExit, harnessVars, localVars, mainHist, itemTrial,
                  runners, burstTrial, callVars >>

SpecBackoff == InitBackoff /\ [][NextBackoff]_vars

\* ------------------------------------ the identity of a record, alone

\* Date.now() of the harness reads StartTime plus up to MaxTick ticks: two
\* records may be produced while the clock reads the same value
MaxTick == 1

\* .substring(0, 60) of line 459
slugLimit == 60

\* character codes: String.prototype.toLowerCase on an ASCII letter, the
\* ASCII members of \s, and the class [a-z0-9\s-] of line 456
toLowerCase(c) == IF c \in 65..90 THEN c + 32 ELSE c
IsSpace(c) == c \in {9, 10, 11, 12, 13, 32}
IsSlugChar(c) == c \in 97..122 \/ c \in 48..57 \/ IsSpace(c) \/ c = 45

\* .replace(/\s+/g, '-'): every run of whitespace becomes one dash
RECURSIVE DashSpaces(_, _)
DashSpaces(text, inRun) ==
  IF text = <<>> THEN <<>>
  ELSE IF IsSpace(Head(text))
       THEN (IF inRun THEN <<>> ELSE <<45>>) \o DashSpaces(Tail(text), TRUE)
       ELSE <<Head(text)>> \o DashSpaces(Tail(text), FALSE)

\* .replace(/^-+|-+$/g, ''): the dashes at both ends are removed
RECURSIVE StripLeadingDashes(_)
StripLeadingDashes(text) ==
  IF text # <<>> /\ Head(text) = 45 THEN StripLeadingDashes(Tail(text))
  ELSE text

RECURSIVE StripTrailingDashes(_)
StripTrailingDashes(text) ==
  IF text # <<>> /\ text[Len(text)] = 45
  THEN StripTrailingDashes(SubSeq(text, 1, Len(text) - 1))
  ELSE text

\* the chain of lines 454-459 on a title
NormalizeTitle(title) ==
  LET lower == [i \in 1..Len(title) |-> toLowerCase(title[i])]
      kept == SelectSeq(lower, IsSlugChar)
      dashed == DashSpaces(kept, FALSE)
      stripped == StripTrailingDashes(StripLeadingDashes(dashed))
  IN SubSeq(stripped, 1, Min(slugLimit, Len(stripped)))

\* the decimal numeral of n, as character codes
RECURSIVE Numeral(_)
Numeral(n) ==
  IF n < 10 THEN <<48 + n>> ELSE Numeral(n \div 10) \o <<48 + (n % 10)>>

\* 'untitled-'
Untitled == <<117, 110, 116, 105, 116, 108, 101, 100, 45>>

\* title.trim() === ''
IsBlank(title) == \A i \in 1..Len(title) : IsSpace(title[i])

\* generateSlug(title) (lines 449-463) called while Date.now() reads now
generateSlug(title, now) ==
  IF IsBlank(title) THEN Untitled \o Numeral(now)
  ELSE LET slug == NormalizeTitle(title)
       IN IF slug # <<>> THEN slug ELSE Untitled \o Numeral(now)

\* titles and links of raw items: "!!", "?", "-", "Hi", "A b" and none;
\* "/a", "/b" and none
TrialTitles == {<<33, 33>>, <<63>>, <<45>>, <<72, 105>>, <<65, 32, 98>>, <<>>}
TrialLinks == {<<47, 97>>, <<47, 98>>, <<>>}
TrialItems == {Item(l, t, RecentDate, "v1") : l \in TrialLinks, t \in TrialTitles}
TrialTimes == StartTime..(StartTime + MaxTick)

\* a raw item that parseXML did not push
NoRecord == [kept |-> FALSE]

\* what parseXML (lines 154-240) and the map of lines 393-402 make of the
\* k-th raw item of the trial: nothing, or the record with its id, the text
\* the id was computed from, and its slug
TrialRecord(trial, k) ==
  LET feed == AllFeeds[trial.feeds[k]]
      raw == trial.items[k]
      now == trial.times[k]
      articles == Enrich(parseXML(<<raw>>, now), feed)
  IN IF articles = <<>> THEN NoRecord
     ELSE [kept |-> TRUE,
           publication |-> articles[1].publication,
           id |-> articles[1].id,
           hashed |-> raw.link \o raw.title,
           title |-> articles[1].title,
           link |-> articles[1].link,
           slug |-> generateSlug(articles[1].title, now)]

InitItem ==
  /\ Fresh
  /\ catalog = <<>>
  /\ pc = "item"
  /\ mergeIn = NoInput
  /\ backoffTrial = NoBackoffTrial
  /\ \E f1 \in FeedIx, f2 \in FeedIx, i1 \in TrialItems, i2 \in TrialItems,
        t1 \in TrialTimes, t2 \in TrialTimes :
       /\ t1 <= t2
       /\ itemTrial = [feeds |-> <<f1, f2>>, items |-> <<i1, i2>>,
                       times |-> <<t1, t2>>, records |-> <<>>]

\* the next raw item of the trial goes through parseXML and the map
NextItem ==
  /\ pc = "item"
  /\ Len(itemTrial.records) < Len(itemTrial.items)
  /\ itemTrial' =
       [itemTrial EXCEPT !.records =
          Append(@, TrialRecord(itemTrial, Len(itemTrial.records) + 1))]
  /\ UNCHANGED << catalog, clock, pc, runs, fileVars, loopVars, throttleVars,
                  histVars, lastExit, harnessVars, localVars, mainHist,
                  backoffTrial, runners, burstTrial, callVars >>

SpecItem == InitItem /\ [][NextItem]_vars

\* -------------------------------------------------- fetch-feeds-parallel.js

\* result.items.slice(0, 10) and .slice(0, 500) of fetch-feeds-parallel.js
parallelItemLimit == 10
parallelDisplayLimit == 500

InitParallel ==
  /\ Fresh
  /\ catalog \in Catalogs
  /\ pc = "parallelIdle"
  /\ mergeIn = NoInput
  /\ backoffTrial = NoBackoffTrial
  /\ itemTrial = NoItemTrial

\* the workflows start two runners with WORKFLOW_FEEDS set to disjoint parts
\* of the catalog (parallelFetch, lines 15-40)
ParallelStart ==
  /\ pc = "parallelIdle"
  /\ \E k \in 0..Len(catalog) :
       runners' = [r \in Runners |->
                     [NoRunner EXCEPT
                        !.pc = IF Len(IF r = 1 THEN SubSeq(catalog, 1, k)
                                      ELSE SubSeq(catalog, k + 1, Len(catalog))) = 0
                               THEN "done" ELSE "load",
                        !.feeds = IF r = 1 THEN SubSeq(catalog, 1, k)
                                  ELSE SubSeq(catalog, k + 1, Len(catalog))]]
  /\ pc' = "parallel"
  /\ UNCHANGED << catalog, clock, runs, fileVars, loopVars, throttleVars,
                  histVars, lastExit, harnessVars, localVars, mainHist,
                  backoffTrial, itemTrial, burstTrial, callVars >>

\* loadExistingArticles (lines 144-167) and line 56: the runner reads the
\* articles file as it is now; a file that cannot be read gives []
RunnerLoad(r) ==
  /\ pc = "parallel"
  /\ runners[r].pc = "load"
  /\ LET existing == LoadArchive(displayFile)
     IN runners' = [runners EXCEPT
                      ![r].pc = "fetch",
                      ![r].existingArticles = existing,
                      ![r].existingIds = {existing[i].id : i \in 1..Len(existing)}]
  /\ UNCHANGED << catalog, clock, pc, runs, fileVars, loopVars, throttleVars,
                  histVars, lastExit, harnessVars, localVars, mainHist,
                  backoffTrial, itemTrial, burstTrial, callVars >>

\* one round of the loop of runWithCustomFeeds (lines 58-129): parseURL
\* throws, or the first ten items are gone through as in the local fetcher
RunnerFetch(r) ==
  /\ pc = "parallel"
  /\ runners[r].pc = "fetch"
  /\ LET me == runners[r]
         feed == AllFeeds[me.feeds[me.i]]
         last == me.i = Len(me.feeds)
     IN \E threw \in BOOLEAN :
          \E items \in IF threw THEN {<<>>} ELSE LocalPayloads(feed.name) :
            LET taken == SubSeq(items, 1, Min(parallelItemLimit, Len(items)))
                done == ProcessItems(taken, 1, feed, clock, me.existingIds,
                                     me.articles)
            IN runners' = [runners EXCEPT
                             ![r].articles = done.pushed,
                             ![r].existingIds = done.ids,
                             ![r].i = me.i + 1,
                             ![r].pc = IF last THEN "merge" ELSE "fetch"]
  /\ UNCHANGED << catalog, clock, pc, runs, fileVars, loopVars, throttleVars,
                  histVars, lastExit, harnessVars, localVars, mainHist,
                  backoffTrial, itemTrial, burstTrial, callVars >>

\* mergeArticles(existingArticles, newArticles, workflowName) (lines
\* 169-181): what is written is made of the articles the runner loaded
\* when it began and of its own new ones
mergeArticles(existing, newArticles) ==
  LET merged == SortByDate(newArticles \o existing)
  IN [state |-> "ok",
      articles |-> SubSeq(merged, 1, Min(parallelDisplayLimit, Len(merged)))]

\* lines 131-134: the merge is made when the runner has new articles
RunnerMerge(r) ==
  /\ pc = "parallel"
  /\ runners[r].pc = "merge"
  /\ displayFile' = (IF Len(runners[r].articles) > 0
                     THEN mergeArticles(runners[r].existingArticles,
                                        runners[r].articles)
                     ELSE displayFile)
  /\ runners' = [runners EXCEPT ![r].pc = "done"]
  /\ UNCHANGED << catalog, clock, pc, runs, archiveFile, loopVars, throttleVars,
                  histVars, lastExit, harnessVars, localVars, mainHist,
                  backoffTrial, itemTrial, burstTrial, callVars >>

NextParallel ==
  \/ ParallelStart
  \/ \E r \in Runners : RunnerLoad(r) \/ RunnerFetch(r) \/ RunnerMerge(r)

SpecParallel == InitParallel /\ [][NextParallel]_vars

\* ------------------------------------ the interleaving of fetchAllFeeds, alone

\* the feeds of this harness are numbers: -1, -2, ... stand for feeds whose
\* url includes 'substack.com', 1, 2, ... for the others
MaxSubstackFeeds == 3
MaxGeneralFeeds == 4

InitInterleave ==
  /\ Fresh
  /\ pc = "interleave"
  /\ mergeIn = NoInput
  /\ backoffTrial = NoBackoffTrial
  /\ itemTrial = NoItemTrial
  /\ \E ns \in 0..MaxSubstackFeeds, ng \in 0..MaxGeneralFeeds :
       catalog = [i \in 1..ns |-> -i] \o [i \in 1..ng |-> i]

\* lines 551-575: the two filters, the two shuffles and the while loop,
\* which makes at most as many rounds as there are Substack feeds or pairs
\* of other feeds; counts holds the 2-or-3 draw of every round
InterleaveOnce ==
  /\ pc = "interleave"
  /\ LET substackFeeds == {catalog[i] : i \in {j \in 1..Len(catalog) : catalog[j] < 0}}
         nonSubstackFeeds == {catalog[i] : i \in {j \in 1..Len(catalog) : catalog[j] > 0}}
     IN \E shuffledSubstack \in Perms(substackFeeds),
           shuffledNonSubstack \in Perms(nonSubstackFeeds),
           counts \in [1..Max(Cardinality(substackFeeds),
                               Max((Cardinality(nonSubstackFeeds) + 1) \div 2, 1))
                        -> {2, 3}] :
          interleavedFeeds' =
            Interleave(shuffledSubstack, shuffledNonSubstack, 1, 1, counts, 1)
  /\ pc' = "interleaved"
  /\ UNCHANGED << catalog, clock, runs, fileVars, idx, attempt, allArticles,
                  articlesArchive, throttleVars, histVars, lastExit,
                  otherVars, mainHist >>

SpecInterleave == InitInterleave /\ [][InterleaveOnce]_vars

\* ----------------------- the waits of the local loop over Substack feeds

\* the Substack feeds of the order of this harness
MaxBurstFeeds == 7

InitBurst ==
  /\ Fresh
  /\ catalog = <<>>
  /\ pc = "burstIdle"
  /\ mergeIn = NoInput
  /\ backoffTrial = NoBackoffTrial
  /\ itemTrial = NoItemTrial

\* orderedFeeds holds n feeds, all of them Substack feeds (lines 147-160)
BurstStart ==
  /\ pc = "burstIdle"
  /\ \E n \in 1..MaxBurstFeeds : burstTrial' = [NoBurstTrial EXCEPT !.n = n]
  /\ substackCount' = 0
  /\ idx' = 1
  /\ pc' = "burst"
  /\ UNCHANGED << catalog, clock, runs, fileVars, interleavedFeeds, attempt,
                  allArticles, articlesArchive, throttleVars, histVars,
                  lastExit, harnessVars, existingArticles, existingIds, served,
                  metrics, mainHist, backoffTrial, itemTrial, runners, callVars >>

\* one round of the loop (lines 162-256) for a Substack feed: fetchWithRetry
\* returns or throws; substackCount++ is inside the try, after it (192-194);
\* the wait of lines 237-255 is taken unless the feed is the last (0 then)
BurstStep ==
  /\ pc = "burst"
  /\ idx <= burstTrial.n
  /\ \E threw \in BOOLEAN,
        rnd \in {localSubstackDelayMin, localSubstackDelayMax} :
       LET count == IF threw THEN substackCount ELSE substackCount + 1
           last == idx = burstTrial.n
           delayMs == IF last THEN 0 ELSE LocalDelay(TRUE, count, rnd)
       IN /\ (last => rnd = localSubstackDelayMin)
          /\ substackCount' = count
          /\ burstTrial' = [burstTrial EXCEPT !.ok = Append(@, ~threw),
                                              !.waits = Append(@, delayMs)]
          /\ clock' = clock + delayMs
  /\ idx' = idx + 1
  /\ UNCHANGED << catalog, pc, runs, fileVars, interleavedFeeds, attempt,
                  allArticles, articlesArchive, throttleVars, histVars,
                  lastExit, harnessVars, existingArticles, existingIds, served,
                  metrics, mainHist, backoffTrial, itemTrial, runners, callVars >>

SpecBurst == InitBurst /\ [][BurstStart \/ BurstStep]_vars

\* ------------------------------------- the batches of fetchAllFeeds, alone

\* the feeds of data/feeds.json and the value of --total-batches
MaxCatalog == 6
MaxTotalBatches == 4

\* allFeeds.length / totalBatches rounded down
BatchSizeFloor(length, totalBatches) == length \div totalBatches

\* Math.ceil(allFeeds.length / totalBatches) (line 523)
BatchSize(length, totalBatches) == (length + totalBatches - 1) \div totalBatches

\* array.slice(start, end) for start and end that are not negative: both
\* are clamped to the length, and the result is empty when start >= end
Slice(array, start, end) ==
  LET from == Min(start, Len(array))
      to == Min(end, Len(array))
  IN IF from >= to THEN <<>> ELSE SubSeq(array, from + 1, to)

\* lines 521-528: the feeds of a run with --batch=currentBatch and
\* --total-batches=totalBatches
BatchFeeds(allFeeds, currentBatch, totalBatches) ==
  IF currentBatch # 0 /\ totalBatches > 1
  THEN LET batchSize == BatchSize(Len(allFeeds), totalBatches)
           startIndex == (currentBatch - 1) * batchSize
           endIndex == Min(startIndex + batchSize, Len(allFeeds))
       IN Slice(allFeeds, startIndex, endIndex)
  ELSE allFeeds

InitBatch ==
  /\ Fresh
  /\ catalog = <<>>
  /\ pc = "batchIdle"
  /\ mergeIn = NoInput
  /\ backoffTrial = NoBackoffTrial
  /\ itemTrial = NoItemTrial

\* data/feeds.json holds the feeds 1, 2, ... and the runs to come are
\* started with --total-batches=n
BatchStart ==
  /\ pc = "batchIdle"
  /\ \E length \in 0..MaxCatalog, n \in 2..MaxTotalBatches :
       /\ catalog' = [i \in 1..length |-> i]
       /\ batchTrial' = [total |-> n, ran |-> {}, feeds |-> [k \in 1..n |-> <<>>]]
  /\ pc' = "batch"
  /\ UNCHANGED << clock, runs, fileVars, loopVars, throttleVars, histVars,
                  lastExit, harnessVars, localVars, mainHist, backoffTrial,
                  itemTrial, runners, burstTrial, proxyManager >>

\* the run with --batch=k, in whatever order the runs are started
BatchRun ==
  /\ pc = "batch"
  /\ \E k \in 1..batchTrial.total :
       /\ k \notin batchTrial.ran
       /\ batchTrial' =
            [batchTrial EXCEPT !.ran = @ \cup {k},
                               !.feeds[k] = BatchFeeds(catalog, k, batchTrial.total)]
  /\ UNCHANGED << catalog, pc, clock, runs, fileVars, loopVars, throttleVars,
                  histVars, lastExit, harnessVars, localVars, mainHist,
                  backoffTrial, itemTrial, runners, burstTrial, proxyManager >>

SpecBatch == InitBatch /\ [][BatchStart \/ BatchRun]_vars

\* ------------------------------------ ProxyManager of fetch-with-proxy.js

\* how many proxies initialize() may gather
MaxProxies == 3

\* the while loop of getNextProxy (lines 91-100) from this.currentIndex =
\* index on, after attempts rounds: the proxy it returns (0 when it ends
\* without returning) and this.currentIndex as it leaves it
RECURSIVE ScanProxies(_, _, _, _)
ScanProxies(proxies, blacklist, index, attempts) ==
  IF attempts >= Len(proxies) THEN [proxy |-> 0, index |-> index]
  ELSE LET proxy == proxies[index + 1]
           next == (index + 1) % Len(proxies)
       IN IF proxy \notin blacklist THEN [proxy |-> proxy, index |-> next]
          ELSE ScanProxies(proxies, blacklist, next, attempts + 1)

\* getNextProxy that returns the remembered proxy of the domain whatever
\* the blacklist holds
getNextProxyRemembered(manager, domain) ==
  LET workingProxy == manager.successfulProxies[domain]
      scan == ScanProxies(manager.proxies, manager.blacklist,
                          manager.currentIndex, 0)
  IN IF workingProxy # 0
     THEN [returned |-> workingProxy, currentIndex |-> manager.currentIndex,
           blacklist |-> manager.blacklist]
     ELSE IF scan.proxy # 0
     THEN [returned |-> scan.proxy, currentIndex |-> scan.index,
           blacklist |-> manager.blacklist]
     ELSE [returned |-> IF manager.proxies # <<>> THEN manager.proxies[1] ELSE 0,
           currentIndex |-> scan.index, blacklist |-> {}]

\* getNextProxy(domain) (lines 80-104): what it returns, and currentIndex
\* and the blacklist as it leaves them
getNextProxy(manager, domain) ==
  LET workingProxy == manager.successfulProxies[domain]
      scan == ScanProxies(manager.proxies, manager.blacklist,
                          manager.currentIndex, 0)
  IN IF workingProxy # 0 /\ workingProxy \notin manager.blacklist
     THEN [returned |-> workingProxy, currentIndex |-> manager.currentIndex,
           blacklist |-> manager.blacklist]
     ELSE IF scan.proxy # 0
     THEN [returned |-> scan.proxy, currentIndex |-> scan.index,
           blacklist |-> manager.blacklist]
     ELSE [returned |-> IF manager.proxies # <<>> THEN manager.proxies[1] ELSE 0,
           currentIndex |-> scan.index, blacklist |-> {}]

InitProxy ==
  /\ Fresh
  /\ catalog = <<>>
  /\ pc = "proxyIdle"
  /\ mergeIn = NoInput
  /\ backoffTrial = NoBackoffTrial
  /\ itemTrial = NoItemTrial

ProxyUnchanged ==
  UNCHANGED << catalog, clock, runs, fileVars, loopVars, throttleVars,
               histVars, lastExit, harnessVars, localVars, mainHist,
               backoffTrial, itemTrial, runners, burstTrial, batchTrial >>

\* initialize() (lines 61-78): the proxies gathered, without duplicates
ProxyInitialize ==
  /\ pc = "proxyIdle"
  /\ \E n \in 0..MaxProxies :
       proxyManager' = [proxyManager EXCEPT !.proxies = [i \in 1..n |-> i]]
  /\ pc' = "proxy"
  /\ ProxyUnchanged

\* a call of getNextProxy(domain)
GetNextProxy ==
  /\ pc = "proxy"
  /\ \E domain \in ProxyDomains :
       LET call == getNextProxy(proxyManager, domain)
       IN proxyManager' =
            [proxyManager EXCEPT !.currentIndex = call.currentIndex,
                                 !.blacklist = call.blacklist,
                                 !.domain = domain,
                                 !.blacklistBefore = proxyManager.blacklist,
                                 !.returned = call.returned]
  /\ UNCHANGED pc
  /\ ProxyUnchanged

\* markSuccess(proxy, domain) (lines 106-108)
MarkSuccess ==
  /\ pc = "proxy"
  /\ \E proxy \in Range(proxyManager.proxies), domain \in ProxyDomains :
       proxyManager' = [proxyManager EXCEPT !.successfulProxies[domain] = proxy]
  /\ UNCHANGED pc
  /\ ProxyUnchanged

\* markFailure(proxy) (lines 110-112)
MarkFailure ==
  /\ pc = "proxy"
  /\ \E proxy \in Range(proxyManager.proxies) :
       proxyManager' = [proxyManager EXCEPT !.blacklist = @ \cup {proxy}]
  /\ UNCHANGED pc
  /\ ProxyUnchanged

NextProxy == ProxyInitialize \/ GetNextProxy \/ MarkSuccess \/ MarkFailure

SpecProxy == InitProxy /\ [][NextProxy]_vars

\* ------------------------------------------------------------- properties

\* C1 as the specification states it: after a run that read the archive,
\* every id the archive held before the run still maps to the record it
\* mapped to before the run (first-write-wins). Line 582 assigns, so a
\* fetched record with a stored id replaces the stored record.
C1_FirstWriteWins ==
  (pc \in {"writeDisplay", "done"} /\ readOk) =>
    \A i \in 1..Len(loaded) :
      /\ HasKey(archiveFile.articles, loaded[i].id)
      /\ Lookup(archiveFile.articles, loaded[i].id) = loaded[i]

\* C2 as the specification states it: when the second run of the local
\* fetcher is served exactly what the first was served and reads what the
\* first wrote, it appends no article.
C2_SecondRunAddsNothing ==
  (pc = "localDone" /\ runs = 2 /\ served[1] = served[2]) => allArticles = <<>>

\* C3: merging the same articles a second time, at the same clock time,
\* gives the same archive and the same display set as merging them once.
C3_MergeIdempotent == pc = "mergedTwice" => twice = once

C3_Witness ==
  /\ pc = "mergedTwice"
  /\ once.archive # mergeIn.archive
  /\ once.display # <<>>
  /\ \E i \in 1..Len(mergeIn.batch) :
       /\ HasKey(mergeIn.archive, mergeIn.batch[i].id)
       /\ Lookup(mergeIn.archive, mergeIn.batch[i].id) # mergeIn.batch[i]

\* C4: after a run, every record of the display file is in the archive file
\* under its id, and the archive's record for that id is the same record.
C4_DisplayInArchive ==
  pc = "done" =>
    /\ displayFile.state = "ok" /\ archiveFile.state = "ok"
    /\ \A i \in 1..Len(displayFile.articles) :
         /\ HasKey(archiveFile.articles, displayFile.articles[i].id)
         /\ Lookup(archiveFile.articles, displayFile.articles[i].id)
              = displayFile.articles[i]

C4_Witness ==
  /\ pc = "done"
  /\ runs = 2
  /\ Len(displayFile.articles) >= 2
  /\ Len(archiveFile.articles) > Len(displayFile.articles)

\* the positions of the merged archive published within the thirty days
\* before the clock
C5_Recent == {k \in 1..Len(once.archive) :
                once.archive[k].publishedAt > clock - thirtyDays}

C6_ArchiveIdsKept ==
  (readOk /\ pc \in {"writeDisplay", "done"}) =>
    /\ archiveFile.state = "ok"
    /\ Keys(loaded) \subseteq Keys(archiveFile.articles)

C6_Witness ==
  /\ readOk
  /\ pc = "done"
  /\ loaded # <<>>
  /\ Keys(archiveFile.articles) # Keys(loaded)
  /\ \E f \in Range(interleavedFeeds) : feedResult[f] = "failed"

\* C7: whatever way a source fails, the sources after it are still handed to
\* fetchFeedWithRetry, in order, and the loop ends in the merge: while the
\* loop runs the sources handed so far are the first ones of the order, the
\* one at idx being the next, and once it has ended every source was handed.
C7_FailureNotFatal ==
  /\ pc = "fetch" =>
       /\ idx <= Len(interleavedFeeds)
       /\ handed = SubSeq(interleavedFeeds, 1, IF attempt = 1 THEN idx - 1 ELSE idx)
  /\ pc \in {"merge", "writeDisplay", "done"} => handed = interleavedFeeds

C7_Witness ==
  /\ pc = "merge"
  /\ Len(interleavedFeeds) = 2
  /\ feedResult[interleavedFeeds[1]] = "failed"
  /\ feedResult[interleavedFeeds[2]] = "skipped"
  /\ handed = interleavedFeeds

\* every source of the run failed or was skipped
AllSourcesFailed ==
  \A k \in 1..Len(interleavedFeeds) :
    feedResult[interleavedFeeds[k]] \in {"failed", "skipped"}

\* C8: when every source fails the run still merges and writes its files,
\* no article is new, and the archive written is the archive loaded.
C8_AllFailedKeepsArchive ==
  AllSourcesFailed =>
    /\ pc \in {"merge", "writeDisplay", "done"} => allArticles = <<>>
    /\ pc \in {"writeDisplay", "done"} =>
         /\ archiveFile.state = "ok"
         /\ archiveFile.articles = loaded
    /\ pc = "done" => displayFile.state = "ok"

C8_Witness ==
  /\ AllSourcesFailed
  /\ pc = "done"
  /\ Len(interleavedFeeds) = 2
  /\ loaded # <<>>

\* the minimum spacing of a host: 20 minutes for a Substack host, 15 seconds
\* for any other
C9_MinimumSpacing(host) == IF IsSubstackDomain(host) THEN 20 * 60 ELSE 15

\* C9: a call of waitForDomainClearance made for a host less than the host's
\* minimum spacing after the contact recorded by the call before it for that
\* host waits, and records a contact no earlier than that contact plus the
\* minimum spacing.
C9_ClearanceSpacing ==
  (/\ lastCall.host # ""
   /\ lastCall.previous > 0
   /\ lastCall.entered - lastCall.previous < C9_MinimumSpacing(lastCall.host)) =>
    /\ lastCall.recorded > lastCall.entered
    /\ lastCall.recorded >= lastCall.previous + C9_MinimumSpacing(lastCall.host)

C9_Witness ==
  /\ IsSubstackDomain(lastCall.host)
  /\ lastCall.previous > 0
  /\ lastCall.entered - lastCall.previous >= globalSubstackDelay
  /\ lastCall.entered - lastCall.previous < C9_MinimumSpacing(lastCall.host)
  /\ lastCall.recorded = lastCall.previous + C9_MinimumSpacing(lastCall.host)

\* C10 as the specification states it: after any request, the last contact
\* recorded for its host is not earlier than the time the request was
\* issued. Only a first attempt records a contact (lines 337-340), and it
\* does so before the wait for a standing backoff.
C10_AttemptRecordsContact ==
  lastRequest.host # "" =>
    domainLastRequested[lastRequest.host] >= lastRequest.at

\* the delay the specification gives for attempt n: min(base x multiplier^(n-1),
\* cap) with base 2 minutes, multiplier 2 and cap 20 minutes, in seconds
C11_Delay(n) ==
  IF 2 * 60 * 2^(n - 1) <= 20 * 60 THEN 2 * 60 * 2^(n - 1) ELSE 20 * 60

\* C11: for every attempt number n >= 1 calculateRateLimitBackoff returns
\* min(base x multiplier^(n-1), cap); over successive attempts the delay grows
\* strictly until it is the cap, stays there, and never exceeds it.
C11_BackoffFormula ==
  \A k \in 1..Len(backoffTrial.delays) :
    LET d == backoffTrial.delays
    IN /\ d[k] = C11_Delay(backoffTrial.first + k - 1)
       /\ d[k] <= 20 * 60
       /\ k > 1 => IF d[k - 1] < 20 * 60 THEN d[k] > d[k - 1] ELSE d[k] = d[k - 1]

C11_Witness ==
  /\ backoffTrial.first = 1
  /\ Len(backoffTrial.delays) >= 6
  /\ backoffTrial.delays[4] < 20 * 60
  /\ backoffTrial.delays[5] = 20 * 60
  /\ backoffTrial.delays[6] = 20 * 60

\* the url of the feed last handed to fetchFeedWithRetry
TracedUrl == AllFeeds[trace.feed].url

\* C12: when fetchFeedWithRetry is called for a source less than 2 hours
\* after an earlier call for that source in the same process gave it up on a
\* rate-limit response, it returns at once: no request is made, no call of
\* waitForDomainClearance, and no attempt is counted.
C12_SkipListFailsFast ==
  (/\ trace.feed # 0
   /\ placed[TracedUrl].run = runs
   /\ placed[TracedUrl].at < trace.calledAt
   /\ trace.calledAt < placed[TracedUrl].at + 2 * 60 * 60) =>
    /\ trace.requests = <<>>
    /\ trace.clearances = 0
    /\ trace.returnedAt = trace.calledAt
    /\ feedResult[trace.feed] = "skipped"

C12_Witness ==
  /\ trace.feed # 0
  /\ pc = "merge"
  /\ placed[TracedUrl].run = runs
  /\ placed[TracedUrl].at < trace.calledAt
  /\ trace.requests = <<>>
  /\ feedResult[trace.feed] = "skipped"
  /\ attempt = 1

\* C13 as the specification states it: a source given up on a rate-limit
\* response by an earlier run is not requested by a run that calls
\* fetchFeedWithRetry for it less than 2 hours later. failedFeeds is a Map
\* of the process (line 41): the new process starts with none.
C13_SkipListOutlivesRun ==
  (/\ trace.feed # 0
   /\ placed[TracedUrl].run # 0
   /\ placed[TracedUrl].run < runs
   /\ trace.calledAt < placed[TracedUrl].at + 2 * 60 * 60) =>
    trace.requests = <<>>

\* C14: after a request for a source was answered 403 or 429, at most one
\* more request is made for that source before it is given up.
C14_OneMoreAfterRateLimit ==
  \A k \in 1..Len(trace.requests) :
    trace.requests[k] = "rateLimited" => Len(trace.requests) <= k + 1

C14_Witness ==
  /\ trace.feed # 0
  /\ trace.requests = << "rateLimited", "rateLimited" >>
  /\ feedResult[trace.feed] = "failed"
  /\ pc = "fetch"

\* C15 as the specification states it: a request whose payload arrived but
\* could not be parsed is the last request made for its source in the run.
\* parseXML is called inside the try of fetchFeedWithRetry, so its error is
\* caught and retried like any other (lines 390, 407-426).
C15_ParseErrorNotRetried ==
  \A k \in 1..Len(trace.requests) :
    trace.requests[k] = "parseError" => k = Len(trace.requests)

\* C16 as the specification states it: when a signal stops the run in the
\* fetch loop, after a source was fetched and before the last was processed,
\* the articles gathered so far are in the archive file when the process has
\* ended. The handlers call process.exit(0) and write nothing (646-655).
C16_InterruptPersists ==
  (/\ pc = "stopped"
   /\ idx <= Len(interleavedFeeds)
   /\ \E f \in FeedIx : feedResult[f] = "ok"
   /\ allArticles # <<>>) =>
    /\ archiveFile.state = "ok"
    /\ \A i \in 1..Len(allArticles) :
         HasKey(archiveFile.articles, allArticles[i].id)

\* C17: a run writes the archive file once, after the last feed of the
\* processing order: while the loop runs, and when a signal stops the
\* process in the loop, no write has happened and the file is what it was
\* when the run began; once the display file is being written or the run
\* is done, exactly one write has happened; never more than one.
C17_ArchiveWrittenOnceAtEnd ==
  /\ (pc = "fetch" \/ (pc = "stopped" /\ idx <= Len(interleavedFeeds))) =>
       /\ archiveWrites = 0
       /\ archiveFile = archiveBefore
  /\ pc \in {"writeDisplay", "done"} =>
       /\ archiveWrites = 1
       /\ idx > Len(interleavedFeeds)
  /\ archiveWrites <= 1

\* a signal stops the run between two feeds, with articles fetched that
\* the file does not hold
C17_Witness ==
  /\ pc = "stopped"
  /\ 1 < idx
  /\ idx <= Len(interleavedFeeds)
  /\ allArticles # <<>>
  /\ \E i \in 1..Len(allArticles) :
       ~HasKey(archiveFile.articles, allArticles[i].id)
  /\ archiveFile = archiveBefore

\* C18: when the loop of the local fetcher has gone through its n feeds,
\* metrics.successful is the number of feeds whose fetch succeeded,
\* metrics.failed the number of feeds whose every attempt threw, the two add
\* up to n, and metrics.newArticles is the number of articles the feeds of
\* the run added; while the loop runs the two counters add up to the number
\* of feeds gone through.
C18_MetricsCountFeeds ==
  pc \in {"localFetch", "localSave", "localDone"} =>
    LET gone == {interleavedFeeds[k] : k \in 1..(idx - 1)}
        succeeded == {f \in gone : served[runs][f].ok}
    IN /\ metrics.successful = Cardinality(succeeded)
       /\ metrics.failed = Cardinality(gone \ succeeded)
       /\ metrics.successful + metrics.failed = idx - 1
       /\ pc # "localFetch" =>
            metrics.successful + metrics.failed = Len(interleavedFeeds)
       /\ metrics.newArticles = Len(allArticles)

\* a run over two feeds: one failed on every attempt, the other delivered
\* three items of which two were new
C18_Witness ==
  /\ pc = "localDone"
  /\ metrics = [successful |-> 1, failed |-> 1, newArticles |-> 2]
  /\ \E f \in FeedIx : served[runs][f].ok /\ Len(served[runs][f].items) = 3

\* the records of the trial that parseXML pushed
TrialKept == {k \in 1..Len(itemTrial.records) : itemTrial.records[k].kept}

\* C19 as the specification states it: every record has a non-empty slug,
\* and two different records (records with different ids) whose titles
\* normalize to the empty string
\* have different slugs, also when both were produced while the clock read
\* the same value. Both fall back to 'untitled-' + Date.now().
C19_FallbackSlugUnique ==
  /\ \A k \in TrialKept : itemTrial.records[k].slug # <<>>
  /\ \A j \in TrialKept, k \in TrialKept :
       (/\ j # k
        /\ itemTrial.records[j].id # itemTrial.records[k].id
        /\ NormalizeTitle(itemTrial.records[j].title) = <<>>
        /\ NormalizeTitle(itemTrial.records[k].title) = <<>>) =>
         itemTrial.records[j].slug # itemTrial.records[k].slug

\* C20 as the specification states it: two items of the same feed with the
\* same link get the same id whatever their titles are, and two items that
\* differ in feed or in link have their ids computed from different texts.
\* The text that is hashed is item.link + item.title (line 221).
C20_IdFromFeedAndLink ==
  \A j \in TrialKept, k \in TrialKept :
    LET a == itemTrial.records[j]
        b == itemTrial.records[k]
    IN /\ (a.publication = b.publication /\ a.link = b.link) => a.id = b.id
       /\ (a.publication # b.publication \/ a.link # b.link) =>
            a.hashed # b.hashed

\* C21 as the specification states it: a run that found the archive file
\* present but unreadable aborts: it fetches no feed and does not write the
\* archive file. The catch of lines 542-544 treats an unreadable file like a
\* missing one and the run goes on with an empty archive.
C21_CorruptArchiveAborts ==
  archiveBefore.state = "corrupt" =>
    /\ pc \notin {"fetch", "merge", "writeDisplay", "done"}
    /\ archiveWrites = 0
    /\ archiveFile = archiveBefore

\* C22 as the specification states it: in a run, two requests to the same
\* host are at least 10 minutes apart, retries included, whatever the class
\* of the host. A retry follows the failed attempt after retryDelay, and a
\* second feed of a host outside Substack after nonSubstackDelay: neither
\* waits ten minutes.
C22_TenMinutesPerDomain ==
  (lastRequest.host # "" /\ lastRequest.previous > 0) =>
    lastRequest.at - lastRequest.previous >= 10 * 60

\* C23 as the specification states it: when the two runners have finished,
\* the articles file holds the new articles gathered by both. A runner
\* writes the articles it loaded when it began plus its own (lines 169-181),
\* so the runner that writes last drops what the other wrote after that load.
C23_BothRunnersKept ==
  (pc = "parallel" /\ \A r \in Runners : runners[r].pc = "done") =>
    \A r \in Runners : \A i \in 1..Len(runners[r].articles) :
      HasKey(displayFile.articles, runners[r].articles[i].id)

\* what is left, at time now, of a spacing counted from the time last
C24_Remaining(spacing, now, last) ==
  IF now - last < spacing THEN spacing - (now - last) ELSE 0

\* C24 as the specification states it: a call of waitForDomainClearance for
\* a Substack host suspends its caller for the larger of what is left of the
\* host's spacing (20 minutes) and what is left of the spacing of the class
\* (10 minutes), up to the jitter of delay. The code waits for the one and
\* then for the other, both computed on entry (lines 279-306): their sum.
C24_WaitIsTheLarger ==
  (lastCall.host # "" /\ IsSubstackDomain(lastCall.host)) =>
    LET host == C24_Remaining(20 * 60, lastCall.entered, lastCall.previous)
        class == C24_Remaining(10 * 60, lastCall.entered,
                               lastCall.previousSubstack)
        larger == IF host >= class THEN host ELSE class
        waited == lastCall.recorded - lastCall.entered
    IN /\ waited >= larger
       /\ waited <= larger + 2 * MaxJitter

\* C25: when waitForDomainClearance returns for a Substack host, at least
\* globalSubstackDelay (10 minutes) has passed since the clearance recorded
\* before it for any Substack host, whichever host that was and whether or
\* not the host of this call was contacted before.
C25_ClassCooldownAcrossHosts ==
  (/\ lastCall.host # ""
   /\ IsSubstackDomain(lastCall.host)
   /\ lastCall.previousSubstack > 0) =>
    lastCall.recorded - lastCall.previousSubstack >= 10 * 60

\* a Substack host never contacted before is called for less than ten
\* minutes after the clearance of another Substack host, and waits for what
\* is left of the ten minutes
C25_Witness ==
  /\ IsSubstackDomain(lastCall.host)
  /\ lastCall.previous = 0
  /\ lastCall.previousSubstack > 0
  /\ lastCall.entered - lastCall.previousSubstack < globalSubstackDelay
  /\ lastCall.recorded = lastCall.previousSubstack + globalSubstackDelay

\* C26 as the specification states it: of two rate-limit responses of the
\* same host that follow each other with no request of that host in between
\* (so with no success in between), the second sets a backoff delay that is
\* not smaller than the first, also when two feeds of the host received
\* them. The delay is computed from the attempt number of the feed at hand
\* (line 377), which starts again at 1 with every feed.
C26_BackoffNeverDecreases ==
  (/\ lastRequest.host # ""
   /\ lastRequest.limited > 0
   /\ lastRequest.limitedBefore > 0) =>
    lastRequest.limited >= lastRequest.limitedBefore

\* the urls of the feeds on the host of the feed last handed over
C27_UrlsOfTracedHost ==
  {AllFeeds[g].url : g \in {f \in FeedIx : AllFeeds[f].host = AllFeeds[trace.feed].host}}

\* C27 as the specification states it: once a feed of host h has been placed
\* on the skip list in this run, every feed of h handed to
\* fetchFeedWithRetry within the two hours that follow makes no request.
\* failedFeeds is keyed by feed.url (lines 329, 431): a feed of the same
\* host with another url is not found in it.
C27_SkipListPerHost ==
  trace.feed # 0 =>
    \A u \in C27_UrlsOfTracedHost :
      (/\ placed[u].run = runs
       /\ placed[u].at < trace.calledAt
       /\ trace.calledAt < placed[u].at + 2 * 60 * 60) =>
        trace.requests = <<>>

\* C28: after an ok response for the feed last handed over, whether or not
\* its payload could be parsed, domainRateLimitBackoff has no entry for the
\* host of the feed, and a request for that host made now would wait for no
\* backoff, whatever backoff an earlier response had set.
C28_SuccessClearsBackoff ==
  (/\ trace.feed # 0
   /\ trace.requests # <<>>
   /\ trace.requests[Len(trace.requests)] \in {"ok", "parseError"}) =>
    /\ domainRateLimitBackoff[AllFeeds[trace.feed].host] = 0
    /\ AfterBackoff(clock, domainRateLimitBackoff[AllFeeds[trace.feed].host],
                    MaxJitter) = clock

\* a 429 set a backoff for the host and the retry was answered with the feed
C28_Witness ==
  /\ trace.feed # 0
  /\ trace.requests = <<"rateLimited", "ok">>
  /\ feedResult[trace.feed] = "ok"
  /\ domainRateLimitBackoff[AllFeeds[trace.feed].host] = 0

\* C29: processFeeds hands the feeds to fetchFeedWithRetry once each and in
\* the order of its list: the feeds handed over so far are the first ones of
\* the list, in its order; while a feed is being retried it is the last one
\* handed over and no other has been started; when the loop has ended every
\* feed of the list was handed over exactly once, whatever failed.
C29_OncePerFeedInOrder ==
  pc \in {"fetch", "merge", "writeDisplay", "done"} =>
    /\ Len(handed) <= Len(interleavedFeeds)
    /\ handed = SubSeq(interleavedFeeds, 1, Len(handed))
    /\ pc = "fetch" => Len(handed) = (IF attempt = 1 THEN idx - 1 ELSE idx)
    /\ pc # "fetch" => handed = interleavedFeeds
    /\ \A f \in FeedIx :
         feedResult[f] # "none" => \E k \in 1..Len(handed) : handed[k] = f

\* the first of two feeds failed; the second was fetched on its retry
C29_Witness ==
  /\ pc = "merge"
  /\ Len(interleavedFeeds) = 2
  /\ handed = interleavedFeeds
  /\ feedResult[handed[1]] = "failed"
  /\ feedResult[handed[2]] = "ok"
  /\ Len(trace.requests) = 2

\* the positions after p of the order that hold feeds of either class
C30_GeneralAfter(p) == {q \in (p + 1)..Len(interleavedFeeds) : interleavedFeeds[q] > 0}
C30_SubstackAfter(p) == {q \in (p + 1)..Len(interleavedFeeds) : interleavedFeeds[q] < 0}

\* C30: in the order built, a Substack feed that has at least two other
\* feeds after it is followed at once by two of them, and the next Substack
\* feed, if there is one, comes after two or three of them.
C30_Interleaved ==
  pc = "interleaved" =>
    \A p \in 1..Len(interleavedFeeds) :
      (interleavedFeeds[p] < 0 /\ Cardinality(C30_GeneralAfter(p)) >= 2) =>
        /\ interleavedFeeds[p + 1] > 0
        /\ interleavedFeeds[p + 2] > 0
        /\ \A q \in C30_SubstackAfter(p) :
             (\A m \in C30_SubstackAfter(p) : q <= m) => q - p - 1 \in {2, 3}

\* one Substack feed is followed by three of the others, the next by one
C30_Witness ==
  /\ pc = "interleaved"
  /\ Len(interleavedFeeds) = 6
  /\ interleavedFeeds[1] < 0
  /\ interleavedFeeds[5] < 0
  /\ \A q \in {2, 3, 4, 6} : interleavedFeeds[q] > 0

\* the articles the run in progress has appended for feed f
C31_Appended(f) ==
  {i \in 1..Len(allArticles) : allArticles[i].publication = AllFeeds[f].name}

\* C31 as the specification states it: for every feed, the articles a run
\* of the local fetcher appends are at most 10 and each is among the 10
\* most recently published items of the payload the feed returned: fewer
\* than 10 items of the payload are newer than it. The code takes
\* feedData.items.slice(0, 10), the first ten in payload order (line 198).
C31_TenMostRecent ==
  pc \in {"localSave", "localDone"} =>
    \A f \in FeedIx :
      /\ Cardinality(C31_Appended(f)) <= 10
      /\ \A i \in C31_Appended(f) :
           LET items == served[runs][f].items
           IN Cardinality({k \in 1..Len(items) :
                             items[k].pubDate > allArticles[i].publishedAt}) < 10

\* C32 as the specification states it: when a run of the local fetcher has
\* written its two files, every record of the display file is in the
\* archive file, identical. The archive is given the records beyond the
\* first 500 of the merged list, and the display file the first 500 (lines
\* 263-267): what is displayed is what the archive does not get.
C32_LocalDisplayInArchive ==
  pc = "localDone" =>
    \A i \in 1..Len(displayFile.articles) :
      \E j \in 1..Len(archiveFile.articles) :
        archiveFile.articles[j] = displayFile.articles[i]

\* C33 as the specification states it: counting the Substack feeds in the
\* order they are processed, the wait after the 5th, 10th, ... is the burst
\* pause of 5 minutes and the wait after any other is between 30 and 90
\* seconds, whether or not fetches failed (the last feed is followed by no
\* wait). The code tests substackCount, which counts the fetches that
\* succeeded and stays where it is when a fetch fails.
C33_BurstAfterEveryFifth ==
  \A k \in 1..Len(burstTrial.waits) :
    k < burstTrial.n =>
      IF k % 5 = 0 THEN burstTrial.waits[k] = 5 * 60
      ELSE burstTrial.waits[k] \in 30..90

\* C34: no request is issued to a host before the expiry of the rate-limit
\* backoff recorded for the host at that moment, on a first attempt or a
\* retry, for whichever feed of the host.
C34_NoRequestDuringBackoff ==
  lastRequest.host # "" => lastRequest.at >= lastRequest.backoffUntil

\* a feed is handed over while the backoff set by another feed of its host
\* stands, and its first request is issued when the backoff has expired
C34_Witness ==
  /\ trace.feed # 0
  /\ Len(trace.requests) = 1
  /\ lastRequest.host = AllFeeds[trace.feed].host
  /\ lastRequest.limitedBefore > 0
  /\ trace.calledAt < lastRequest.backoffUntil
  /\ lastRequest.at >= lastRequest.backoffUntil

\* C35 as the specification states it: when the feed last handed over was
\* placed on the skip list by its call of fetchFeedWithRetry, the response
\* to its final attempt was HTTP 403 or 429. The code decides by searching
\* the text of the error message for '403' and '429' (line 412).
C35_SkipListOnlyAfterRateLimit ==
  (/\ trace.feed # 0
   /\ trace.requests # <<>>
   /\ placed[TracedUrl].run = runs
   /\ placed[TracedUrl].at >= trace.calledAt) =>
    trace.requests[Len(trace.requests)] = "rateLimited"

\* C36: the order built by fetchAllFeeds is a permutation of the selected
\* feeds: it is as long as the selection and holds every selected feed
\* exactly once, with no Substack feed or no other feed as well.
C36_OrderIsPermutation ==
  pc = "interleaved" =>
    /\ Len(interleavedFeeds) = Len(catalog)
    /\ \A i \in 1..Len(catalog) :
         Cardinality({q \in 1..Len(interleavedFeeds) :
                        interleavedFeeds[q] = catalog[i]}) = 1

\* an order of four feeds was built from a selection without Substack feeds
C36_Witness ==
  /\ pc = "interleaved"
  /\ Len(catalog) = 4
  /\ \A i \in 1..Len(catalog) : catalog[i] > 0
  /\ Len(interleavedFeeds) = 4

\* C37: one call of fetchFeedWithRetry issues at most retryAttempts requests
\* and returns a list, so the run has issued at most retryAttempts requests
\* for every feed handed to it, and, when every request and timed wait
\* completes, a run that has entered the loop reaches the archive write.
C37_BoundedAndTerminating ==
  /\ [](/\ Len(trace.requests) <= retryAttempts
        /\ trace.total <= retryAttempts * Len(handed)
        /\ Len(handed) <= Len(interleavedFeeds))
  /\ (pc = "fetch" ~> archiveWrites > 0)

\* a run over two feeds has issued four requests and written the archive
C37_Witness ==
  /\ pc = "writeDisplay"
  /\ archiveWrites > 0
  /\ Len(interleavedFeeds) = 2
  /\ trace.total = retryAttempts * 2

\* C38: once the runs with --batch=1 .. --batch=n have all selected their
\* feeds (n > 1), every feed of the catalog is in exactly one batch, once,
\* and the batches hold nothing else.
C38_BatchesPartition ==
  (pc = "batch" /\ batchTrial.ran = 1..batchTrial.total) =>
    /\ \A i \in 1..Len(catalog) :
         Cardinality({c \in (1..batchTrial.total) \X (1..Len(catalog)) :
                        /\ c[2] <= Len(batchTrial.feeds[c[1]])
                        /\ batchTrial.feeds[c[1]][c[2]] = catalog[i]}) = 1
    /\ \A k \in 1..batchTrial.total :
         \A q \in 1..Len(batchTrial.feeds[k]) :
           \E i \in 1..Len(catalog) : batchTrial.feeds[k][q] = catalog[i]

\* five feeds in four batches: sizes 2, 2, 1 and an empty last batch
C38_Witness ==
  /\ pc = "batch"
  /\ Len(catalog) = 5
  /\ batchTrial.total = 4
  /\ batchTrial.ran = 1..batchTrial.total
  /\ batchTrial.feeds[3] = <<5>>
  /\ batchTrial.feeds[4] = <<>>

\* C39: the last call of getNextProxy returned no proxy that was on the
\* blacklist when it was called, if a proxy of the list was not on it then,
\* and it returned null only with an empty proxy list.
C39_NeverBlacklistedProxy ==
  proxyManager.domain # "" =>
    /\ (\E i \in 1..Len(proxyManager.proxies) :
          proxyManager.proxies[i] \notin proxyManager.blacklistBefore) =>
         proxyManager.returned \notin proxyManager.blacklistBefore
    /\ proxyManager.returned = 0 => proxyManager.proxies = <<>>

\* the proxy remembered for the domain was on the blacklist at the call,
\* and another proxy, which was not, was returned
C39_Witness ==
  /\ proxyManager.domain # ""
  /\ proxyManager.successfulProxies[proxyManager.domain] \in proxyManager.blacklistBefore
  /\ proxyManager.returned # 0
  /\ proxyManager.returned \notin proxyManager.blacklistBefore

====
